---- MODULE Spec2Model ----
(***************************************************************************)
(* Model of the gridlocked sliding-block puzzle engine                     *)
(* (src/src/core/GameEngine.ts).  One GameEngine instance is the state;    *)
(* every public method is one action.  The engine's methods are written    *)
(* as operators over (puzzle, vehiclePositions) so that they can be        *)
(* evaluated in any state and on any argument.                             *)
(***************************************************************************)
EXTENDS Integers, Sequences, FiniteSets, TLC

VARIABLES
    puzzle,            \* this.state.puzzle: the template the engine was built from
    vehiclePositions,  \* this.state.vehiclePositions: id -> Position
    moveCount,         \* this.state.moveCount
    isComplete,        \* this.state.isComplete
    moveHistory,       \* this.moveHistory
    listeners,         \* this.listeners (a JS Set: insertion-ordered, no duplicates)
    op,                \* the public method that ran last
    ret,               \* the boolean it returned (canMove, moveVehicle; else FALSE)
    range,             \* the {min, max} it returned (getSlideRange; else NoRange)
    noop,              \* canMove, moveVehicle: the target was the vehicle's current position
    applied,           \* moveVehicle calls that returned true since construction or reset
    prevCount,         \* this.state.moveCount as it was before the last method ran
    notified,          \* the listeners invoked by the last method, in order
    seen,              \* <<the engine as those listeners found it>>, <<>> if none ran
    idKind,            \* monitor: what the id of the last canMove/moveVehicle names
    gone,              \* monitor: listeners whose unsubscribe function has been called
                       \* and that have not been subscribed again since
    template,          \* the RawPuzzle the author holds (the editor's buildPuzzle())
    result,            \* the ValidationResult of the last validatePuzzle, else NoResult
    drag,              \* GameRenderer: dragId, dragStartCellVal, dragRange, dragIsHorizontal
    onWinTimers,       \* GameRenderer: the setTimeout(() => this.onWin(..)) calls made
    disturbed,         \* monitor: the engine was reset since the last pointer-down
    editor             \* PuzzleEditor's fields, NoEditor where no editor is open

vars == <<puzzle, vehiclePositions, moveCount, isComplete, moveHistory,
          listeners, op, ret, range, noop, applied, prevCount, notified,
          seen, idKind, gone, template, result, drag, onWinTimers, disturbed,
          editor>>

\* The monitors are driven by the specifications that observe them
\* (SpecIds, SpecObs); the engine's actions never read them.
monitors == <<idKind, gone>>

\* The author's side: written by the specifications of hydration,
\* validation and rotation (SpecVal, SpecHyd), never by the engine.
authoring == <<template, result>>

\* The screens: the renderer's fields, written by the specification of the
\* drag handlers (SpecDrag), and the editor's, written by SpecEd; never by
\* the engine.
ui == <<drag, onWinTimers, disturbed, editor>>

engine == <<puzzle, vehiclePositions, moveCount, isComplete, moveHistory>>

(***************************************************************************)
(* Bounds of the model.                                                    *)
(***************************************************************************)
MaxMoves == 2

MaxLen == 2

MaxVehicles == 1

MaxObstacles == 1

MaxTrace == 2

MaxSide == 3

MaxTimers == 3

Listeners == {"L1"}

(***************************************************************************)
(* Data model: the types of the puzzle (types/puzzle.ts).                  *)
(***************************************************************************)
Position(r, c) == [row |-> r, col |-> c]

Vehicle(i, r, c, len, o) ==
    [id |-> i, row |-> r, col |-> c, length |-> len, orientation |-> o]

Obstacle(i, r, c) == [id |-> i, row |-> r, col |-> c]

\* The value of `find` when no vehicle matches: JavaScript's undefined.
Undefined == [id |-> "undefined", row |-> 0, col |-> 0, length |-> 0,
              orientation |-> "none"]

NoRange == [min |-> 0, max |-> 0]

\* No PuzzleEditor has been constructed.
NoEditor == <<>>

\* GameRenderer's drag fields while nothing is dragged (dragId null).
NoDrag == [dragId |-> "null", dragStartCellVal |-> 0, dragRange |-> NoRange,
           dragIsHorizontal |-> FALSE]

PuzzleMove(id, r, c) == [vehicleId |-> id, row |-> r, col |-> c]

\* The optional field `validation?: PuzzleMove[]`: left out, or an array.
Absent == [present |-> FALSE, moves |-> <<>>]

Given(ms) == [present |-> TRUE, moves |-> ms]

\* ValidationResult: the optional fields par and error hold at most one value.
ValidationResult(valid, par, error) == [isValid |-> valid, par |-> par, error |-> error]

NoResult == [isValid |-> FALSE, par |-> <<>>, error |-> <<>>]

(***************************************************************************)
(* GameEngine: the methods as operators.  pz is this.state.puzzle and vp   *)
(* is this.state.vehiclePositions.                                         *)
(***************************************************************************)

\* initState, the vehiclePositions map: the player first, then the vehicles
\* in order, a later `set` of the same id replacing the earlier one.
RECURSIVE SetAll(_, _, _)
SetAll(m, vs, i) ==
    IF i > Len(vs) THEN m
    ELSE LET v == vs[i]
             ids == DOMAIN m \cup {v.id}
         IN SetAll([k \in ids |-> IF k = v.id THEN Position(v.row, v.col) ELSE m[k]],
                   vs, i + 1)

initState(pz) ==
    [puzzle |-> pz,
     vehiclePositions |-> SetAll(<<>>, <<pz.playerCar>> \o pz.vehicles, 1),
     moveCount |-> 0,
     isComplete |-> FALSE]

\* getVehicle: the player, else the first vehicle with that id, else undefined.
getVehicle(pz, id) ==
    IF id = pz.playerCar.id THEN pz.playerCar
    ELSE LET hits == {i \in 1..Len(pz.vehicles) : pz.vehicles[i].id = id}
         IN IF hits = {} THEN Undefined
            ELSE pz.vehicles[CHOOSE i \in hits : \A j \in hits : i <= j]

\* The template literal `${r},${c}` that keys the occupancy map.
Key(r, c) == ToString(r) \o "," \o ToString(c)

\* The i-th cell (i from 0) of a vehicle anchored at pos.
CellRow(vehicle, pos, i) == IF vehicle.orientation = "vertical" THEN pos.row + i ELSE pos.row

CellCol(vehicle, pos, i) == IF vehicle.orientation = "horizontal" THEN pos.col + i ELSE pos.col

\* addVehicleCells: the (key, id) pairs it sets, in order.
addVehicleCells(vehicle, pos) ==
    [i \in 1..vehicle.length |->
        <<Key(CellRow(vehicle, pos, i - 1), CellCol(vehicle, pos, i - 1)), vehicle.id>>]

RECURSIVE OtherVehicleEntries(_, _, _, _)
OtherVehicleEntries(pz, vp, excludeId, i) ==
    IF i > Len(pz.vehicles) THEN <<>>
    ELSE LET v == pz.vehicles[i]
         IN (IF v.id = excludeId THEN <<>> ELSE addVehicleCells(v, vp[v.id]))
            \o OtherVehicleEntries(pz, vp, excludeId, i + 1)

\* getOccupiedCells: the Map "row,col" -> entity id; a later set of a key
\* replaces the earlier one.
getOccupiedCells(pz, vp, excludeId) ==
    LET player == IF excludeId # pz.playerCar.id
                  THEN addVehicleCells(pz.playerCar, vp[pz.playerCar.id])
                  ELSE <<>>
        obs == [i \in 1..Len(pz.obstacles) |->
                   <<Key(pz.obstacles[i].row, pz.obstacles[i].col), pz.obstacles[i].id>>]
        entries == player \o OtherVehicleEntries(pz, vp, excludeId, 1) \o obs
        keys == {entries[i][1] : i \in 1..Len(entries)}
    IN [k \in keys |->
           LET last == CHOOSE i \in 1..Len(entries) :
                           /\ entries[i][1] = k
                           /\ \A j \in 1..Len(entries) : entries[j][1] = k => j <= i
           IN entries[last][2]]

\* Variants of canMove with one rule changed, as a slip in the code would
\* change it: axis = the orientation rule is applied, tail = the bounds are
\* checked for every cell and not for the anchor alone, occ = the occupancy
\* is checked, self = the vehicle's own cells are excluded from it.
canMoveWith(pz, vp, vehicleId, newPos, axis, tail, occ, self) ==
    LET vehicle == getVehicle(pz, vehicleId) IN
    IF vehicle = Undefined THEN FALSE
    ELSE
    LET currentPos == vp[vehicleId]
        cellR(i) == CellRow(vehicle, newPos, i)
        cellC(i) == CellCol(vehicle, newPos, i)
        checked == IF tail THEN 0..(vehicle.length - 1) ELSE {0}
        occupied == getOccupiedCells(pz, vp, IF self THEN vehicleId ELSE "undefined")
    IN /\ axis => (vehicle.orientation = "horizontal" => newPos.row = currentPos.row)
       /\ axis => (vehicle.orientation = "vertical" => newPos.col = currentPos.col)
       /\ \A i \in checked :
             cellR(i) >= 0 /\ cellR(i) < pz.gridSize.rows /\
             cellC(i) >= 0 /\ cellC(i) < pz.gridSize.cols
       /\ occ => \A i \in 0..(vehicle.length - 1) :
                    Key(cellR(i), cellC(i)) \notin DOMAIN occupied

canMove_NoOccupancy(pz, vp, vehicleId, newPos) ==
    canMoveWith(pz, vp, vehicleId, newPos, TRUE, TRUE, FALSE, TRUE)

canMove_AnchorBounds(pz, vp, vehicleId, newPos) ==
    canMoveWith(pz, vp, vehicleId, newPos, TRUE, FALSE, TRUE, TRUE)

canMove_IncludesSelf(pz, vp, vehicleId, newPos) ==
    canMoveWith(pz, vp, vehicleId, newPos, TRUE, TRUE, TRUE, FALSE)

canMove_NoAxis(pz, vp, vehicleId, newPos) ==
    canMoveWith(pz, vp, vehicleId, newPos, FALSE, TRUE, TRUE, TRUE)

\* canMove
\* `if (!vehicle) return true`.
canMove_MissingIsLegal(pz, vp, vehicleId, newPos) ==
    IF getVehicle(pz, vehicleId) = Undefined THEN TRUE
    ELSE canMoveWith(pz, vp, vehicleId, newPos, TRUE, TRUE, TRUE, TRUE)

canMove(pz, vp, vehicleId, newPos) ==
    LET vehicle == getVehicle(pz, vehicleId) IN
    IF vehicle = Undefined THEN FALSE
    ELSE
    LET currentPos == vp[vehicleId]
        rows == pz.gridSize.rows
        cols == pz.gridSize.cols
        cellR(i) == CellRow(vehicle, newPos, i)
        cellC(i) == CellCol(vehicle, newPos, i)
    IN
    IF vehicle.orientation = "horizontal" /\ newPos.row # currentPos.row THEN FALSE
    ELSE IF vehicle.orientation = "vertical" /\ newPos.col # currentPos.col THEN FALSE
    ELSE IF \E i \in 0..(vehicle.length - 1) :
                cellR(i) < 0 \/ cellR(i) >= rows \/ cellC(i) < 0 \/ cellC(i) >= cols
         THEN FALSE
    ELSE LET occupied == getOccupiedCells(pz, vp, vehicleId)
         IN IF \E i \in 0..(vehicle.length - 1) : Key(cellR(i), cellC(i)) \in DOMAIN occupied
            THEN FALSE
            ELSE TRUE

\* getSlideRange: the two while loops.
RECURSIVE SlideBackward(_, _, _, _)
SlideBackward(pz, vp, vehicleId, min) ==
    LET vehicle == getVehicle(pz, vehicleId)
        currentPos == vp[vehicleId]
        testPos == IF vehicle.orientation = "horizontal"
                   THEN Position(currentPos.row, min - 1)
                   ELSE Position(min - 1, currentPos.col)
    IN IF min > 0 /\ canMove(pz, vp, vehicleId, testPos)
       THEN SlideBackward(pz, vp, vehicleId, min - 1)
       ELSE min

RECURSIVE SlideForward(_, _, _, _)
SlideForward(pz, vp, vehicleId, max) ==
    LET vehicle == getVehicle(pz, vehicleId)
        currentPos == vp[vehicleId]
        isHorizontal == vehicle.orientation = "horizontal"
        limit == IF isHorizontal THEN pz.gridSize.cols ELSE pz.gridSize.rows
        testPos == IF isHorizontal
                   THEN Position(currentPos.row, max + 1)
                   ELSE Position(max + 1, currentPos.col)
    IN IF max + vehicle.length < limit /\ canMove(pz, vp, vehicleId, testPos)
       THEN SlideForward(pz, vp, vehicleId, max + 1)
       ELSE max

\* No loops: the range runs from wall to wall.
getSlideRange_ToWalls(pz, vp, vehicleId) ==
    LET vehicle == getVehicle(pz, vehicleId)
        limit == IF vehicle.orientation = "horizontal" THEN pz.gridSize.cols
                 ELSE pz.gridSize.rows
    IN [min |-> 0, max |-> limit - vehicle.length]

\* `if` for `while`: at most one step each way.
getSlideRange_OneStep(pz, vp, vehicleId) ==
    LET vehicle == getVehicle(pz, vehicleId)
        currentPos == vp[vehicleId]
        isHorizontal == vehicle.orientation = "horizontal"
        currentVal == IF isHorizontal THEN currentPos.col ELSE currentPos.row
        limit == IF isHorizontal THEN pz.gridSize.cols ELSE pz.gridSize.rows
        at(k) == IF isHorizontal THEN Position(currentPos.row, k)
                 ELSE Position(k, currentPos.col)
    IN [min |-> IF currentVal > 0 /\ canMove(pz, vp, vehicleId, at(currentVal - 1))
                THEN currentVal - 1 ELSE currentVal,
        max |-> IF currentVal + vehicle.length < limit
                   /\ canMove(pz, vp, vehicleId, at(currentVal + 1))
                THEN currentVal + 1 ELSE currentVal]

getSlideRange(pz, vp, vehicleId) ==
    LET vehicle == getVehicle(pz, vehicleId)
        currentPos == vp[vehicleId]
        currentVal == IF vehicle.orientation = "horizontal" THEN currentPos.col
                      ELSE currentPos.row
    IN [min |-> SlideBackward(pz, vp, vehicleId, currentVal),
        max |-> SlideForward(pz, vp, vehicleId, currentVal)]

\* The anchor is compared with the exit in every direction: the length of
\* the player is forgotten.
checkWin_AnchorOnly(pz, vp) ==
    LET exit == pz.exit
        playerCar == pz.playerCar
        pos == vp[playerCar.id]
    IN IF playerCar.orientation = "horizontal"
       THEN exit.direction \in {"right", "left"}
            /\ pos.row = exit.row /\ pos.col = exit.col
       ELSE exit.direction \in {"down", "up"}
            /\ pos.col = exit.col /\ pos.row = exit.row

\* The direction of the exit is not looked at: either end of the player on
\* the exit cell wins.
checkWin_IgnoresDirection(pz, vp) ==
    LET exit == pz.exit
        playerCar == pz.playerCar
        pos == vp[playerCar.id]
    IN IF playerCar.orientation = "horizontal"
       THEN pos.row = exit.row
            /\ (pos.col + playerCar.length - 1 = exit.col \/ pos.col = exit.col)
       ELSE pos.col = exit.col
            /\ (pos.row + playerCar.length - 1 = exit.row \/ pos.row = exit.row)

\* checkWin
checkWin(pz, vp) ==
    LET exit == pz.exit
        playerCar == pz.playerCar
        pos == vp[playerCar.id]
    IN IF playerCar.orientation = "horizontal"
       THEN IF exit.direction = "right"
            THEN pos.row = exit.row /\ pos.col + playerCar.length - 1 = exit.col
            ELSE IF exit.direction = "left"
            THEN pos.row = exit.row /\ pos.col = exit.col
            ELSE FALSE
       ELSE IF exit.direction = "down"
            THEN pos.col = exit.col /\ pos.row + playerCar.length - 1 = exit.row
            ELSE IF exit.direction = "up"
            THEN pos.col = exit.col /\ pos.row = exit.row
            ELSE FALSE

\* An engine as a value: the fields of one GameEngine instance.
Engine(pz, vp, mc, ic, mh) ==
    [puzzle |-> pz, vehiclePositions |-> vp, moveCount |-> mc, isComplete |-> ic,
     moveHistory |-> mh]

\* constructor
newEngine(pz) ==
    LET st == initState(pz)
    IN Engine(st.puzzle, st.vehiclePositions, st.moveCount, st.isComplete, <<>>)

\* Variants of moveVehicle, as a slip in the code would change it: count =
\* the counter is incremented before the legality check, same = the check
\* that the target differs from the current position is made, pushNew =
\* the history entry holds the target and not the position left.
moveVehicleWith(e, vehicleId, newPos, count, same, pushNew) ==
    LET e0 == IF count THEN [e EXCEPT !.moveCount = @ + 1] ELSE e IN
    IF ~canMove(e.puzzle, e.vehiclePositions, vehicleId, newPos)
    THEN [engine |-> e0, ret |-> FALSE, notify |-> FALSE]
    ELSE
    LET currentPos == e.vehiclePositions[vehicleId] IN
    IF same /\ currentPos.row = newPos.row /\ currentPos.col = newPos.col
    THEN [engine |-> e0, ret |-> FALSE, notify |-> FALSE]
    ELSE
    LET vp == [e.vehiclePositions EXCEPT ![vehicleId] = Position(newPos.row, newPos.col)]
        mc == IF count THEN e0.moveCount ELSE e.moveCount + 1
        rec == IF pushNew THEN newPos ELSE currentPos
        mh == Append(e.moveHistory,
                     [vehicleId |-> vehicleId, row |-> rec.row, col |-> rec.col])
        ic == IF checkWin(e.puzzle, vp) THEN TRUE ELSE e.isComplete
    IN [engine |-> Engine(e.puzzle, vp, mc, ic, mh), ret |-> TRUE, notify |-> TRUE]

moveVehicle_CountsRejected(e, vehicleId, newPos) ==
    moveVehicleWith(e, vehicleId, newPos, TRUE, TRUE, TRUE)

moveVehicle_NoNoopCheck(e, vehicleId, newPos) ==
    moveVehicleWith(e, vehicleId, newPos, FALSE, FALSE, TRUE)

moveVehicle_PushesOld(e, vehicleId, newPos) ==
    moveVehicleWith(e, vehicleId, newPos, FALSE, TRUE, FALSE)

\* `this.state.isComplete = this.checkWin()`: the flag follows the predicate.
moveVehicle_FlagFollowsPredicate(e, vehicleId, newPos) ==
    LET r == moveVehicleWith(e, vehicleId, newPos, FALSE, TRUE, TRUE)
    IN IF r.ret
       THEN [r EXCEPT !.engine.isComplete =
                          checkWin(e.puzzle, r.engine.vehiclePositions)]
       ELSE r

\* `if (this.state.isComplete) return false`: a solved board is frozen.
moveVehicle_FrozenWhenComplete(e, vehicleId, newPos) ==
    IF e.isComplete THEN [engine |-> e, ret |-> FALSE, notify |-> FALSE]
    ELSE moveVehicleWith(e, vehicleId, newPos, FALSE, TRUE, TRUE)

\* moveVehicle on engine e: the engine afterwards, the value returned and
\* whether notify() ran.
moveVehicle(e, vehicleId, newPos) ==
    IF ~canMove(e.puzzle, e.vehiclePositions, vehicleId, newPos)
    THEN [engine |-> e, ret |-> FALSE, notify |-> FALSE]
    ELSE
    LET currentPos == e.vehiclePositions[vehicleId] IN
    IF currentPos.row = newPos.row /\ currentPos.col = newPos.col
    THEN [engine |-> e, ret |-> FALSE, notify |-> FALSE]
    ELSE
    LET vp == [e.vehiclePositions EXCEPT ![vehicleId] = Position(newPos.row, newPos.col)]
        mc == e.moveCount + 1
        mh == Append(e.moveHistory,
                     [vehicleId |-> vehicleId, row |-> newPos.row, col |-> newPos.col])
        ic == IF checkWin(e.puzzle, vp) THEN TRUE ELSE e.isComplete
    IN [engine |-> Engine(e.puzzle, vp, mc, ic, mh), ret |-> TRUE, notify |-> TRUE]

\* Variants of reset: the history is not cleared; the counter is kept.
reset_KeepsHistory(e) ==
    LET st == initState(e.puzzle)
    IN Engine(st.puzzle, st.vehiclePositions, st.moveCount, st.isComplete, e.moveHistory)

reset_KeepsCount(e) ==
    LET st == initState(e.puzzle)
    IN Engine(st.puzzle, st.vehiclePositions, e.moveCount, st.isComplete, <<>>)

\* The completion flag survives the reset.
reset_KeepsComplete(e) ==
    LET st == initState(e.puzzle)
    IN Engine(st.puzzle, st.vehiclePositions, st.moveCount, e.isComplete, <<>>)

\* reset on engine e
reset(e) ==
    LET st == initState(e.puzzle)
    IN Engine(st.puzzle, st.vehiclePositions, st.moveCount, st.isComplete, <<>>)

(***************************************************************************)
(* validatePuzzle: the trace of the puzzle replayed on an engine of its    *)
(* own.                                                                    *)
(***************************************************************************)
NoTrace == "No validation provided"

NoWin == "Validation does not reach win state"

InvalidMove(i) == "Invalid move at step " \o ToString(i)

\* The for loop from index i (1-based): the engine when the loop is left,
\* and the step whose moveVehicle returned false (0 if none did).
RECURSIVE replayFrom(_, _, _)
replayFrom(e, moves, i) ==
    IF i > Len(moves) THEN [engine |-> e, failed |-> 0]
    ELSE LET move == moves[i]
             r == moveVehicle(e, move.vehicleId, Position(move.row, move.col))
         IN IF ~r.ret THEN [engine |-> r.engine, failed |-> i]
            ELSE replayFrom(r.engine, moves, i + 1)

\* The loop with `continue` for `return`: a rejected move is skipped, and
\* the last rejected step is the one remembered.
RECURSIVE replaySkipping(_, _, _, _)
replaySkipping(e, moves, i, failed) ==
    IF i > Len(moves) THEN [engine |-> e, failed |-> failed]
    ELSE LET move == moves[i]
             r == moveVehicle(e, move.vehicleId, Position(move.row, move.col))
         IN replaySkipping(r.engine, moves, i + 1, IF r.ret THEN failed ELSE i)

\* Variants of validatePuzzle, as a slip in the code would change it:
\* empty = the empty array is refused like the absent one, run = the
\* replay, win = the completion flag is tested at the end.
validatePuzzleWith(pz, empty, run, win) ==
    IF ~pz.validation.present \/ (empty /\ Len(pz.validation.moves) = 0)
    THEN ValidationResult(FALSE, <<>>, <<NoTrace>>)
    ELSE IF run.failed # 0
    THEN ValidationResult(FALSE, <<>>, <<InvalidMove(run.failed)>>)
    ELSE IF win /\ ~run.engine.isComplete
    THEN ValidationResult(FALSE, <<>>, <<NoWin>>)
    ELSE ValidationResult(TRUE, <<Len(pz.validation.moves)>>, <<>>)

validatePuzzle_ReportsLast(pz) ==
    validatePuzzleWith(pz, TRUE,
                       replaySkipping(newEngine(pz), pz.validation.moves, 1, 0), TRUE)

validatePuzzle_NoWinCheck(pz) ==
    validatePuzzleWith(pz, TRUE, replayFrom(newEngine(pz), pz.validation.moves, 1), FALSE)

validatePuzzle_EmptyReplayed(pz) ==
    validatePuzzleWith(pz, FALSE, replayFrom(newEngine(pz), pz.validation.moves, 1), TRUE)

\* static validatePuzzle(puzzle)
validatePuzzle(pz) ==
    IF ~pz.validation.present \/ Len(pz.validation.moves) = 0
    THEN ValidationResult(FALSE, <<>>, <<NoTrace>>)
    ELSE LET run == replayFrom(newEngine(pz), pz.validation.moves, 1)
         IN IF run.failed # 0
            THEN ValidationResult(FALSE, <<>>, <<InvalidMove(run.failed)>>)
            ELSE IF ~run.engine.isComplete
            THEN ValidationResult(FALSE, <<>>, <<NoWin>>)
            ELSE ValidationResult(TRUE, <<Len(pz.validation.moves)>>, <<>>)

(***************************************************************************)
(* Hydration (src/src/data/puzzles/index.ts): the exit's direction is      *)
(* deduced from its cell; every template the engine is given went through  *)
(* it.                                                                     *)
(***************************************************************************)
\* The rows are tested before the columns.
deduceExitDirection_RowFirst(exit, gridSize) ==
    IF exit.row >= gridSize.rows - 1 THEN "down"
    ELSE IF exit.row <= 0 THEN "up"
    ELSE IF exit.col >= gridSize.cols - 1 THEN "right"
    ELSE IF exit.col <= 0 THEN "left"
    ELSE "throw"

deduceExitDirection(exit, gridSize) ==
    IF exit.col >= gridSize.cols - 1 THEN "right"
    ELSE IF exit.col <= 0 THEN "left"
    ELSE IF exit.row >= gridSize.rows - 1 THEN "down"
    ELSE IF exit.row <= 0 THEN "up"
    ELSE "throw"

\* hydratePuzzle: ids are assigned by index; the display attributes (name,
\* difficulty, color, type) play no part in the simulation and are left out.
hydratePuzzle(raw) ==
    [gridSize |-> raw.gridSize,
     exit |-> [row |-> raw.exit.row, col |-> raw.exit.col,
               direction |-> deduceExitDirection(raw.exit, raw.gridSize)],
     playerCar |-> Vehicle("player", raw.playerCar.row, raw.playerCar.col,
                           raw.playerCar.length, raw.playerCar.orientation),
     vehicles |-> [i \in 1..Len(raw.vehicles) |->
                      Vehicle("vehicle-" \o ToString(i - 1), raw.vehicles[i].row,
                              raw.vehicles[i].col, raw.vehicles[i].length,
                              raw.vehicles[i].orientation)],
     obstacles |-> [i \in 1..Len(raw.obstacles) |->
                      Obstacle("obstacle-" \o ToString(i - 1), raw.obstacles[i].row,
                               raw.obstacles[i].col)],
     validation |-> raw.validation]

(***************************************************************************)
(* rotatePuzzle90CW (src/src/data/puzzles/index.ts).                       *)
(***************************************************************************)
\* rotatePos, R being the number of rows of the puzzle rotated.
rotatePos(R, r, c) == Position(c, R - 1 - r)

\* A vertical vehicle is moved but not turned.
rotateVehicle_StaysVertical(R, v) ==
    IF v.orientation = "horizontal"
    THEN LET p == rotatePos(R, v.row, v.col)
         IN [row |-> p.row, col |-> p.col, length |-> v.length, orientation |-> "vertical"]
    ELSE LET bottomRow == v.row + v.length - 1
             p == rotatePos(R, bottomRow, v.col)
         IN [row |-> p.row, col |-> p.col, length |-> v.length,
             orientation |-> "vertical"]

\* A vertical vehicle is anchored at the image of its anchor, as a
\* horizontal one is, and not at the image of its bottom cell.
rotateVehicle_AnchorAtTop(R, v) ==
    LET p == rotatePos(R, v.row, v.col)
    IN [row |-> p.row, col |-> p.col, length |-> v.length,
        orientation |-> IF v.orientation = "horizontal" THEN "vertical"
                        ELSE "horizontal"]

rotateVehicle(R, v) ==
    IF v.orientation = "horizontal"
    THEN LET p == rotatePos(R, v.row, v.col)
         IN [row |-> p.row, col |-> p.col, length |-> v.length, orientation |-> "vertical"]
    ELSE LET bottomRow == v.row + v.length - 1
             p == rotatePos(R, bottomRow, v.col)
         IN [row |-> p.row, col |-> p.col, length |-> v.length,
             orientation |-> "horizontal"]

\* parseInt(vehicleId.replace('vehicle-', '')) as an index into raw.vehicles
\* (1-based here), 0 when it is not a number or names no element.
vehicleIndex(raw, vehicleId) ==
    LET hits == {i \in 1..Len(raw.vehicles) : vehicleId = "vehicle-" \o ToString(i - 1)}
    IN IF hits = {} THEN 0 ELSE CHOOSE i \in hits : TRUE

\* A waypoint of the trace: the shape is looked up by id in the raw
\* puzzle, `?? 'horizontal'` and `?? 2` when the id names no vehicle.
\* Every waypoint is rotated as a bare position, whatever the shape of the
\* vehicle it belongs to.
rotateMove_AsBarePosition(raw, m) ==
    LET p == rotatePos(raw.gridSize.rows, m.row, m.col)
    IN PuzzleMove(m.vehicleId, p.row, p.col)

rotateMove(raw, m) ==
    LET idx == vehicleIndex(raw, m.vehicleId)
        ori == IF m.vehicleId = "player" THEN raw.playerCar.orientation
               ELSE IF idx = 0 THEN "horizontal" ELSE raw.vehicles[idx].orientation
        len == IF m.vehicleId = "player" THEN raw.playerCar.length
               ELSE IF idx = 0 THEN 2 ELSE raw.vehicles[idx].length
        rv == rotateVehicle(raw.gridSize.rows,
                            [row |-> m.row, col |-> m.col, length |-> len,
                             orientation |-> ori])
    IN PuzzleMove(m.vehicleId, rv.row, rv.col)

rotatePuzzle90CW(raw) ==
    LET R == raw.gridSize.rows
        newExit == rotatePos(R, raw.exit.row, raw.exit.col)
    IN [gridSize |-> [rows |-> raw.gridSize.cols, cols |-> R],
        exit |-> newExit,
        playerCar |-> rotateVehicle(R, raw.playerCar),
        vehicles |-> [i \in 1..Len(raw.vehicles) |-> rotateVehicle(R, raw.vehicles[i])],
        obstacles |-> [i \in 1..Len(raw.obstacles) |->
                          rotatePos(R, raw.obstacles[i].row, raw.obstacles[i].col)],
        validation |-> IF raw.validation.present
                       THEN Given([i \in 1..Len(raw.validation.moves) |->
                                      rotateMove(raw, raw.validation.moves[i])])
                       ELSE Absent]

(***************************************************************************)
(* The puzzle definitions the engine is started from: every well-formed    *)
(* raw puzzle within the bounds (entities inside the grid and pairwise     *)
(* disjoint, exit on the periphery).                                       *)
(***************************************************************************)
Orientations == {"horizontal", "vertical"}

\* The grids: every grid of at most four cells with sides of at most three
\* (1x1, 1x2, 2x1, 1x3, 3x1 and 2x2).
GridSizes ==
    {gs \in [rows : 1..3, cols : 1..3] : gs.rows * gs.cols <= 4}

AllCells(gs) == {<<r, c>> : r \in 0..(gs.rows - 1), c \in 0..(gs.cols - 1)}

\* The cells of a vehicle of the given shape anchored at (r, c).
Cells(r, c, len, o) ==
    {<<IF o = "vertical" THEN r + i ELSE r, IF o = "horizontal" THEN c + i ELSE c>> :
        i \in 0..(len - 1)}

Placements(gs) ==
    {p \in [row : 0..(gs.rows - 1), col : 0..(gs.cols - 1), length : 1..MaxLen,
            orientation : Orientations] :
        Cells(p.row, p.col, p.length, p.orientation) \subseteq AllCells(gs)}

PlacementCells(p) == Cells(p.row, p.col, p.length, p.orientation)

SeqsUpTo(S, n) == UNION {[1..k -> S] : k \in 0..n}

Disjoint(sets) ==
    \A i, j \in 1..Len(sets) : i # j => sets[i] \cap sets[j] = {}

ExitCells(gs) ==
    {x \in AllCells(gs) : deduceExitDirection(Position(x[1], x[2]), gs) # "throw"}

RawPuzzle(gs, e, pc, vs, os) ==
    [gridSize |-> gs, exit |-> Position(e[1], e[2]), playerCar |-> pc,
     vehicles |-> vs, obstacles |-> os, validation |-> Absent]

WellFormed(raw) ==
    Disjoint(<<PlacementCells(raw.playerCar)>>
             \o [i \in 1..Len(raw.vehicles) |-> PlacementCells(raw.vehicles[i])]
             \o [i \in 1..Len(raw.obstacles) |->
                    {<<raw.obstacles[i].row, raw.obstacles[i].col>>}])

(***************************************************************************)
(* The engine as a state machine.                                          *)
(***************************************************************************)
this == Engine(puzzle, vehiclePositions, moveCount, isComplete, moveHistory)

Install(e) ==
    /\ puzzle' = e.puzzle
    /\ vehiclePositions' = e.vehiclePositions
    /\ moveCount' = e.moveCount
    /\ isComplete' = e.isComplete
    /\ moveHistory' = e.moveHistory

Init ==
    /\ \E gs \in GridSizes :
       \E pc \in Placements(gs), vs \in SeqsUpTo(Placements(gs), MaxVehicles) :
       \E os \in SeqsUpTo([row : 0..(gs.rows - 1), col : 0..(gs.cols - 1)], MaxObstacles) :
       \E x \in ExitCells(gs) :
          LET raw == RawPuzzle(gs, x, pc, vs, os)
              e == newEngine(hydratePuzzle(raw))
          IN /\ WellFormed(raw)
             /\ template = raw
             /\ puzzle = e.puzzle
             /\ vehiclePositions = e.vehiclePositions
             /\ moveCount = e.moveCount
             /\ isComplete = e.isComplete
             /\ moveHistory = e.moveHistory
    /\ listeners = <<>>
    /\ op = "new"
    /\ ret = FALSE
    /\ range = NoRange
    /\ noop = FALSE
    /\ applied = 0
    /\ prevCount = 0
    /\ notified = <<>>
    /\ seen = <<>>
    /\ idKind = "none"
    /\ gone = {}
    /\ result = NoResult
    /\ drag = NoDrag
    /\ onWinTimers = 0
    /\ disturbed = FALSE
    /\ editor = NoEditor

\* The ids and targets the callers pass: every vehicle of the puzzle with
\* every cell of the grid and of the ring just outside it; an obstacle id and
\* an id that names nothing, with the obstacles' cells and the corner cell.
VehicleIds == DOMAIN vehiclePositions

OtherIds == {"obstacle-0", "ghost"}

CallIds == VehicleIds \cup OtherIds

Targets ==
    {Position(r, c) : r \in (0 - 1)..puzzle.gridSize.rows, c \in (0 - 1)..puzzle.gridSize.cols}

ObstacleCells ==
    {Position(puzzle.obstacles[i].row, puzzle.obstacles[i].col) :
        i \in 1..Len(puzzle.obstacles)}

Calls ==
    (VehicleIds \X Targets) \cup (OtherIds \X (ObstacleCells \cup {Position(0, 0)}))

\* The call targets the position the vehicle is at.
IsNoop(id, pos) == id \in VehicleIds /\ pos = vehiclePositions[id]

\* notify(): every listener, in the Set's iteration order.
notify == listeners

\* The engine as the listeners of an applied moveVehicle find it: notify()
\* is the last statement, after the position, the counter, the history and
\* the completion flag are written.
notifiedWith_BeforeUpdate(e, vehicleId, newPos) == e

notifiedWith(e, vehicleId, newPos) == moveVehicle(e, vehicleId, newPos).engine

MoveVehicle(id, pos) ==
    \E r \in {moveVehicle(this, id, pos)} :
    /\ r.ret => moveCount < MaxMoves
    /\ Install(r.engine)
    /\ prevCount' = moveCount
    /\ op' = "moveVehicle"
    /\ ret' = r.ret
    /\ range' = NoRange
    /\ noop' = IsNoop(id, pos)
    /\ applied' = IF r.ret THEN applied + 1 ELSE applied
    /\ notified' = IF r.notify THEN notify ELSE <<>>
    /\ seen' = IF r.notify THEN <<notifiedWith(this, id, pos)>> ELSE <<>>
    /\ UNCHANGED listeners

Reset ==
    /\ Install(reset(this))
    /\ prevCount' = moveCount
    /\ op' = "reset"
    /\ ret' = FALSE
    /\ range' = NoRange
    /\ noop' = FALSE
    /\ applied' = 0
    /\ notified' = notify
    /\ seen' = <<reset(this)>>
    /\ UNCHANGED listeners

\* canMove answers by trying the move on the engine itself.
CanMove_ByMoving(id, pos) ==
    \E r \in {moveVehicle(this, id, pos)} :
    /\ Install(r.engine)
    /\ prevCount' = moveCount
    /\ op' = "canMove"
    /\ ret' = r.ret
    /\ range' = NoRange
    /\ noop' = IsNoop(id, pos)
    /\ applied' = applied
    /\ notified' = IF r.notify THEN notify ELSE <<>>
    /\ seen' = <<>>
    /\ UNCHANGED listeners

CanMove(id, pos) ==
    /\ prevCount' = moveCount
    /\ op' = "canMove"
    /\ ret' = canMove(puzzle, vehiclePositions, id, pos)
    /\ range' = NoRange
    /\ noop' = IsNoop(id, pos)
    /\ notified' = <<>>
    /\ seen' = <<>>
    /\ UNCHANGED <<engine, listeners, applied>>

GetSlideRange(id) ==
    /\ prevCount' = moveCount
    /\ op' = "getSlideRange"
    /\ range' = getSlideRange(puzzle, vehiclePositions, id)
    /\ ret' = FALSE
    /\ noop' = FALSE
    /\ notified' = <<>>
    /\ seen' = <<>>
    /\ UNCHANGED <<engine, listeners, applied>>

Subscribe(fn) ==
    /\ listeners' = IF \E i \in 1..Len(listeners) : listeners[i] = fn
                    THEN listeners ELSE Append(listeners, fn)
    /\ prevCount' = moveCount
    /\ op' = "subscribe"
    /\ ret' = FALSE
    /\ range' = NoRange
    /\ noop' = FALSE
    /\ notified' = <<>>
    /\ seen' = <<>>
    /\ UNCHANGED <<engine, applied>>

\* The function subscribe returned does nothing: `delete` is forgotten.
Unsubscribe_KeepsListener(fn) ==
    /\ \E i \in 1..Len(listeners) : listeners[i] = fn
    /\ listeners' = listeners
    /\ prevCount' = moveCount
    /\ op' = "unsubscribe"
    /\ ret' = FALSE
    /\ range' = NoRange
    /\ noop' = FALSE
    /\ notified' = <<>>
    /\ seen' = <<>>
    /\ UNCHANGED <<engine, applied>>

\* The function subscribe returned, called while fn is registered.
Unsubscribe(fn) ==
    /\ \E i \in 1..Len(listeners) : listeners[i] = fn
    /\ listeners' = SelectSeq(listeners, LAMBDA x : x # fn)
    /\ prevCount' = moveCount
    /\ op' = "unsubscribe"
    /\ ret' = FALSE
    /\ range' = NoRange
    /\ noop' = FALSE
    /\ notified' = <<>>
    /\ seen' = <<>>
    /\ UNCHANGED <<engine, applied>>

Next ==
    \/ \E c \in Calls : MoveVehicle(c[1], c[2]) /\ UNCHANGED <<monitors, authoring, ui>>
    \/ Reset /\ UNCHANGED <<monitors, authoring, ui>>
    \/ \E c \in Calls : CanMove(c[1], c[2]) /\ UNCHANGED <<monitors, authoring, ui>>
    \/ \E id \in VehicleIds : GetSlideRange(id) /\ UNCHANGED <<monitors, authoring, ui>>
    \/ \E fn \in Listeners : Subscribe(fn) /\ UNCHANGED <<monitors, authoring, ui>>
    \/ \E fn \in Listeners : Unsubscribe(fn) /\ UNCHANGED <<monitors, authoring, ui>>

Spec == Init /\ [][Next]_vars

(***************************************************************************)
(* Further specifications: the same engine and the same methods, built     *)
(* from narrower families of templates so that a monitor or a larger grid  *)
(* stays affordable.                                                       *)
(***************************************************************************)
\* new GameEngine(hydratePuzzle(raw)), nothing called yet.
Construct(raw) ==
    LET e == newEngine(hydratePuzzle(raw))
    IN /\ WellFormed(raw)
       /\ puzzle = e.puzzle
       /\ vehiclePositions = e.vehiclePositions
       /\ moveCount = e.moveCount
       /\ isComplete = e.isComplete
       /\ moveHistory = e.moveHistory
       /\ listeners = <<>>
       /\ op = "new"
       /\ ret = FALSE
       /\ range = NoRange
       /\ noop = FALSE
       /\ applied = 0
       /\ prevCount = 0
       /\ notified = <<>>
       /\ seen = <<>>
       /\ idKind = "none"
       /\ gone = {}
       /\ template = raw
       /\ result = NoResult
       /\ drag = NoDrag
       /\ onWinTimers = 0
       /\ disturbed = FALSE
       /\ editor = NoEditor

\* SpecWin: the player alone on the 3x3 grid, the smallest on which the
\* deduction of the exit's direction yields all four directions.
WinGrid == [rows |-> 3, cols |-> 3]

InitWin ==
    \E pc \in Placements(WinGrid) :
    \E x \in ExitCells(WinGrid) :
        Construct(RawPuzzle(WinGrid, x, pc, <<>>, <<>>))

SpecWin == InitWin /\ [][Next]_vars

\* SpecObs: the player alone and two observers; gone holds the observers
\* that have unsubscribed and not subscribed again.
ObsListeners == {"L1", "L2"}

InitObs ==
    \E gs \in GridSizes :
    \E pc \in Placements(gs) :
    \E x \in ExitCells(gs) :
        Construct(RawPuzzle(gs, x, pc, <<>>, <<>>))

NextObs ==
    \/ \E c \in Calls : MoveVehicle(c[1], c[2]) /\ UNCHANGED <<monitors, authoring, ui>>
    \/ Reset /\ UNCHANGED <<monitors, authoring, ui>>
    \/ \E c \in Calls : CanMove(c[1], c[2]) /\ UNCHANGED <<monitors, authoring, ui>>
    \/ \E id \in VehicleIds : GetSlideRange(id) /\ UNCHANGED <<monitors, authoring, ui>>
    \/ \E fn \in ObsListeners : Subscribe(fn) /\ gone' = gone \ {fn} /\ UNCHANGED <<idKind, authoring, ui>>
    \/ \E fn \in ObsListeners : Unsubscribe(fn) /\ gone' = gone \cup {fn} /\ UNCHANGED <<idKind, authoring, ui>>

SpecObs == InitObs /\ [][NextObs]_vars

\* SpecVal: the author's side.  A raw puzzle with a validation trace is
\* loaded, validated and rotated; the engine of the state is the one built
\* from the puzzle as it stands, and nobody plays on it.
TraceIds == {"player", "vehicle-0"}

TraceMoves(gs) ==
    {PuzzleMove(id, x[1], x[2]) : id \in TraceIds, x \in AllCells(gs)}

Traces(gs, n) == {Absent} \cup {Given(ms) : ms \in SeqsUpTo(TraceMoves(gs), n)}

\* Three families: the player alone with every trace of up to MaxTrace
\* waypoints; the player and one vehicle with every trace of up to two
\* waypoints (the vehicle's and the player's); the player, at most one
\* vehicle and one obstacle with the traces of at most one waypoint.
InitVal ==
    \E gs \in GridSizes :
    \E pc \in Placements(gs) :
    \E x \in ExitCells(gs) :
       \/ \E val \in Traces(gs, MaxTrace) :
             Construct([RawPuzzle(gs, x, pc, <<>>, <<>>) EXCEPT !.validation = val])
       \/ \E v \in Placements(gs), val \in Traces(gs, 2) :
             Construct([RawPuzzle(gs, x, pc, <<v>>, <<>>) EXCEPT !.validation = val])
       \/ \E vs \in SeqsUpTo(Placements(gs), 1),
             o \in [row : 0..(gs.rows - 1), col : 0..(gs.cols - 1)], val \in Traces(gs, 1) :
             Construct([RawPuzzle(gs, x, pc, vs, <<o>>) EXCEPT !.validation = val])

\* The replay runs on the engine at hand and not on one of its own: the
\* moves land on the caller's board and its listeners are told.
Validate_OnCallersEngine ==
    LET run == replayFrom(this, puzzle.validation.moves, 1)
    IN /\ result' = validatePuzzleWith(puzzle, TRUE, run, TRUE)
       /\ Install(run.engine)
       /\ prevCount' = moveCount
       /\ op' = "validatePuzzle"
       /\ ret' = FALSE
       /\ range' = NoRange
       /\ noop' = FALSE
       /\ notified' = IF run.engine.moveCount > moveCount THEN notify ELSE <<>>
       /\ seen' = <<>>
       /\ UNCHANGED <<listeners, applied, monitors, template, ui>>

\* GameEngine.validatePuzzle(puzzle), called on the hydrated puzzle.
Validate ==
    /\ result' = validatePuzzle(puzzle)
    /\ prevCount' = moveCount
    /\ op' = "validatePuzzle"
    /\ ret' = FALSE
    /\ range' = NoRange
    /\ noop' = FALSE
    /\ notified' = <<>>
    /\ seen' = <<>>
    /\ UNCHANGED <<engine, listeners, applied, monitors, template, ui>>

\* The editor's rotatePuzzle, and a test engine started on the outcome.
Rotate ==
    /\ template' = rotatePuzzle90CW(template)
    /\ Install(newEngine(hydratePuzzle(template')))
    /\ result' = NoResult
    /\ prevCount' = moveCount
    /\ op' = "rotatePuzzle90CW"
    /\ ret' = FALSE
    /\ range' = NoRange
    /\ noop' = FALSE
    /\ applied' = 0
    /\ notified' = <<>>
    /\ seen' = <<>>
    /\ UNCHANGED <<listeners, monitors, ui>>

NextVal ==
    \/ Validate
    \/ Rotate

SpecVal == InitVal /\ [][NextVal]_vars

\* SpecIso: a game is played on one engine while validatePuzzle is called
\* on its puzzle; the player alone, traces of at most one waypoint.
InitIso ==
    \E gs \in GridSizes :
    \E pc \in Placements(gs) :
    \E x \in ExitCells(gs) :
    \E val \in Traces(gs, 1) :
        Construct([RawPuzzle(gs, x, pc, <<>>, <<>>) EXCEPT !.validation = val])

NextIso ==
    \/ \E c \in Calls : MoveVehicle(c[1], c[2]) /\ UNCHANGED <<monitors, authoring, ui>>
    \/ Reset /\ UNCHANGED <<monitors, authoring, ui>>
    \/ \E fn \in Listeners : Subscribe(fn) /\ UNCHANGED <<monitors, authoring, ui>>
    \/ Validate

SpecIso == InitIso /\ [][NextIso]_vars

\* SpecHyd: raw puzzles as they come from storage or from the editor, not
\* yet hydrated: every grid of sides up to MaxSide, the player on one cell,
\* and an exit anywhere inside the grid, on its periphery, or one step
\* outside the largest grid in either coordinate.
NoPuzzle == [exit |-> [row |-> 0, col |-> 0, direction |-> "none"]]

\* deduceExitDirection ends in its `throw`, which hydratePuzzle lets through.
Throws(raw) == deduceExitDirection(raw.exit, raw.gridSize) = "throw"

InitHyd ==
    /\ \E gs \in [rows : 1..MaxSide, cols : 1..MaxSide] :
       \E r \in 0..(gs.rows - 1), c \in 0..(gs.cols - 1), o \in Orientations :
       \E xr \in (0 - 1)..MaxSide, xc \in (0 - 1)..MaxSide :
       \E val \in Traces(gs, 0) :
          template = [RawPuzzle(gs, <<xr, xc>>,
                                [row |-> r, col |-> c, length |-> 1, orientation |-> o],
                                <<>>, <<>>) EXCEPT !.validation = val]
    /\ puzzle = NoPuzzle
    /\ vehiclePositions = <<>>
    /\ moveCount = 0
    /\ isComplete = FALSE
    /\ moveHistory = <<>>
    /\ listeners = <<>>
    /\ op = "raw"
    /\ ret = FALSE
    /\ range = NoRange
    /\ noop = FALSE
    /\ applied = 0
    /\ prevCount = 0
    /\ notified = <<>>
    /\ seen = <<>>
    /\ idKind = "none"
    /\ gone = {}
    /\ result = NoResult
    /\ drag = NoDrag
    /\ onWinTimers = 0
    /\ disturbed = FALSE
    /\ editor = NoEditor

\* getSavedPuzzles, one entry: hydratePuzzle, then validatePuzzle when the
\* puzzle has a validation (an empty array counts).  ret tells whether
\* hydratePuzzle returned; when it threw, nothing is produced.
LoadPuzzle ==
    /\ IF Throws(template)
       THEN /\ ret' = FALSE
            /\ UNCHANGED <<engine, result>>
       ELSE /\ ret' = TRUE
            /\ puzzle' = hydratePuzzle(template)
            /\ result' = IF puzzle'.validation.present THEN validatePuzzle(puzzle')
                         ELSE NoResult
            /\ UNCHANGED <<vehiclePositions, moveCount, isComplete, moveHistory>>
    /\ op' = "hydratePuzzle"
    /\ prevCount' = moveCount
    /\ range' = NoRange
    /\ noop' = FALSE
    /\ notified' = <<>>
    /\ seen' = <<>>
    /\ UNCHANGED <<listeners, applied, monitors, template, ui>>

\* PuzzleEditor.startTest: hydratePuzzle, then new GameEngine(hydrated).
StartTest ==
    /\ IF Throws(template)
       THEN /\ ret' = FALSE
            /\ UNCHANGED engine
       ELSE /\ ret' = TRUE
            /\ Install(newEngine(hydratePuzzle(template)))
    /\ op' = "startTest"
    /\ prevCount' = moveCount
    /\ range' = NoRange
    /\ noop' = FALSE
    /\ notified' = <<>>
    /\ seen' = <<>>
    /\ UNCHANGED <<listeners, applied, monitors, authoring, ui>>

NextHyd == LoadPuzzle \/ StartTest

SpecHyd == InitHyd /\ [][NextHyd]_vars

\* SpecQry: the read-only methods beside moveVehicle, on the player and at
\* most one vehicle, with a listener that may be registered.
\* getVehicle(id): ret tells whether a vehicle was found.
GetVehicle(id) ==
    /\ prevCount' = moveCount
    /\ op' = "getVehicle"
    /\ ret' = (getVehicle(puzzle, id) # Undefined)
    /\ range' = NoRange
    /\ noop' = FALSE
    /\ notified' = <<>>
    /\ seen' = <<>>
    /\ UNCHANGED <<engine, listeners, applied>>

\* getMoveHistory(): a copy of the array is returned.
GetMoveHistory ==
    /\ prevCount' = moveCount
    /\ op' = "getMoveHistory"
    /\ ret' = FALSE
    /\ range' = NoRange
    /\ noop' = FALSE
    /\ notified' = <<>>
    /\ seen' = <<>>
    /\ UNCHANGED <<engine, listeners, applied>>

\* getState(): the state object is returned.
GetState ==
    /\ prevCount' = moveCount
    /\ op' = "getState"
    /\ ret' = FALSE
    /\ range' = NoRange
    /\ noop' = FALSE
    /\ notified' = <<>>
    /\ seen' = <<>>
    /\ UNCHANGED <<engine, listeners, applied>>

InitQry ==
    \E gs \in GridSizes :
    \E pc \in Placements(gs), vs \in SeqsUpTo(Placements(gs), 1) :
    \E x \in ExitCells(gs) :
        Construct(RawPuzzle(gs, x, pc, vs, <<>>))

NextQry ==
    \/ \E c \in Calls : MoveVehicle(c[1], c[2]) /\ UNCHANGED <<monitors, authoring, ui>>
    \/ \E fn \in Listeners : Subscribe(fn) /\ UNCHANGED <<monitors, authoring, ui>>
    \/ \E c \in Calls : CanMove(c[1], c[2]) /\ UNCHANGED <<monitors, authoring, ui>>
    \/ \E id \in VehicleIds : GetSlideRange(id) /\ UNCHANGED <<monitors, authoring, ui>>
    \/ \E id \in CallIds : GetVehicle(id) /\ UNCHANGED <<monitors, authoring, ui>>
    \/ GetMoveHistory /\ UNCHANGED <<monitors, authoring, ui>>
    \/ GetState /\ UNCHANGED <<monitors, authoring, ui>>

SpecQry == InitQry /\ [][NextQry]_vars

\* SpecScn: the 4x4 scenario of the spec's section 8 (horizontal player of
\* length 2 at (1,0), vertical vehicle of length 2 on (0,2)-(1,2), exit at
\* (1,3)), with the trace "blocker down, player to the exit"; the puzzle is
\* played and validated.
ScenarioPuzzle ==
    [RawPuzzle([rows |-> 4, cols |-> 4], <<1, 3>>,
               [row |-> 1, col |-> 0, length |-> 2, orientation |-> "horizontal"],
               <<[row |-> 0, col |-> 2, length |-> 2, orientation |-> "vertical"]>>,
               <<>>)
     EXCEPT !.validation = Given(<<PuzzleMove("vehicle-0", 2, 2),
                                   PuzzleMove("player", 1, 2)>>)]

InitScn == Construct(ScenarioPuzzle)

NextScn ==
    \/ \E c \in Calls : MoveVehicle(c[1], c[2]) /\ UNCHANGED <<monitors, authoring, ui>>
    \/ Reset /\ UNCHANGED <<monitors, authoring, ui>>
    \/ \E c \in Calls : CanMove(c[1], c[2]) /\ UNCHANGED <<monitors, authoring, ui>>
    \/ \E id \in VehicleIds : GetSlideRange(id) /\ UNCHANGED <<monitors, authoring, ui>>
    \/ Validate

SpecScn == InitScn /\ [][NextScn]_vars

\* SpecDrag: GameRenderer on the player and at most one vehicle.  Its
\* constructor builds the engine and subscribes updatePositions; the user
\* drags vehicles and clicks the reset button.
InitDrag ==
    /\ \E gs \in GridSizes :
       \E pc \in Placements(gs), vs \in SeqsUpTo(Placements(gs), 1) :
       \E x \in ExitCells(gs) :
          LET raw == RawPuzzle(gs, x, pc, vs, <<>>)
              e == newEngine(hydratePuzzle(raw))
          IN /\ WellFormed(raw)
             /\ template = raw
             /\ puzzle = e.puzzle
             /\ vehiclePositions = e.vehiclePositions
             /\ moveCount = e.moveCount
             /\ isComplete = e.isComplete
             /\ moveHistory = e.moveHistory
    /\ listeners = <<"updatePositions">>
    /\ op = "new"
    /\ ret = FALSE
    /\ range = NoRange
    /\ noop = FALSE
    /\ applied = 0
    /\ prevCount = 0
    /\ notified = <<>>
    /\ seen = <<>>
    /\ idKind = "none"
    /\ gone = {}
    /\ result = NoResult
    /\ drag = NoDrag
    /\ onWinTimers = 0
    /\ disturbed = FALSE
    /\ editor = NoEditor

\* updatePositions as far as the win goes: the timers it sets on engine e.
updatePositions(e) == IF e.isComplete THEN 1 ELSE 0

\* onPointerDown on the element of vehicle id.
OnPointerDown(id) ==
    LET vehicle == getVehicle(puzzle, id)
        pos == vehiclePositions[id]
        horizontal == vehicle.orientation = "horizontal"
    IN /\ vehicle # Undefined
       /\ drag' = [dragId |-> id,
                   dragStartCellVal |-> IF horizontal THEN pos.col ELSE pos.row,
                   dragRange |-> getSlideRange(puzzle, vehiclePositions, id),
                   dragIsHorizontal |-> horizontal]
       /\ disturbed' = FALSE
       /\ prevCount' = moveCount
       /\ op' = "onPointerDown"
       /\ ret' = FALSE
       /\ range' = NoRange
       /\ noop' = FALSE
       /\ notified' = <<>>
       /\ seen' = <<>>
       /\ UNCHANGED <<engine, listeners, applied, onWinTimers, editor, monitors, authoring>>

\* onPointerMove: the dragged element follows the pointer; no field of the
\* renderer or of the engine is written.
OnPointerMove ==
    /\ drag.dragId # "null"
    /\ prevCount' = moveCount
    /\ op' = "onPointerMove"
    /\ ret' = FALSE
    /\ range' = NoRange
    /\ noop' = FALSE
    /\ notified' = <<>>
    /\ seen' = <<>>
    /\ UNCHANGED <<engine, listeners, applied, ui, monitors, authoring>>

Min(a, b) == IF a <= b THEN a ELSE b

Max(a, b) == IF a >= b THEN a ELSE b

\* onPointerUp (also bound to pointercancel), the pointer having travelled
\* cellDelta cells: moveVehicle, whose notify() runs the subscribed
\* updatePositions, then updatePositions once more.
OnPointerUp(cellDelta) ==
    LET newVal == Max(drag.dragRange.min,
                      Min(drag.dragRange.max, drag.dragStartCellVal + cellDelta))
        currentPos == vehiclePositions[drag.dragId]
        newPos == IF drag.dragIsHorizontal THEN Position(currentPos.row, newVal)
                  ELSE Position(newVal, currentPos.col)
    IN /\ drag.dragId # "null"
       /\ \E r \in {moveVehicle(this, drag.dragId, newPos)} :
          /\ r.ret => moveCount < MaxMoves
          /\ Install(r.engine)
          /\ ret' = r.ret
          /\ applied' = IF r.ret THEN applied + 1 ELSE applied
          /\ notified' = IF r.notify THEN notify ELSE <<>>
          /\ seen' = IF r.notify THEN <<r.engine>> ELSE <<>>
          /\ onWinTimers' = onWinTimers
                              + (IF r.notify THEN Len(notify) * updatePositions(r.engine) ELSE 0)
                              + updatePositions(r.engine)
          /\ onWinTimers' <= MaxTimers
       /\ noop' = IsNoop(drag.dragId, newPos)
       /\ drag' = [drag EXCEPT !.dragId = "null"]
       /\ prevCount' = moveCount
       /\ op' = "onPointerUp"
       /\ range' = NoRange
       /\ UNCHANGED <<listeners, disturbed, editor, monitors, authoring>>

\* The reset button: engine.reset(), whose notify() runs updatePositions.
ResetClick ==
    /\ Reset
    /\ onWinTimers' = onWinTimers + Len(notify) * updatePositions(reset(this))
    /\ disturbed' = TRUE
    /\ UNCHANGED <<drag, editor, monitors, authoring>>

NextDrag ==
    \/ \E id \in VehicleIds : OnPointerDown(id)
    \/ OnPointerMove
    \/ \E cellDelta \in (0 - MaxSide)..MaxSide : OnPointerUp(cellDelta)
    \/ ResetClick

SpecDrag == InitDrag /\ [][NextDrag]_vars

(***************************************************************************)
(* PuzzleEditor (src/unnamed/part_003), the player tool: a new puzzle is   *)
(* edited with the player car and its exit; the vehicle and obstacle lists *)
(* stay empty, and the handlers read them as the code does.  An optional   *)
(* field (exit, playerCar, selectedEntity) is a sequence of at most one    *)
(* element, null being <<>>.                                               *)
(***************************************************************************)
\* The smallest side the rows and cols selects offer.
MinEditorSide == 3

\* The largest side explored, of those the selects offer (up to 8).
MaxEditorSide == 4

EditorSides == MinEditorSide..MaxEditorSide

\* The fields of a PuzzleEditor constructed without a puzzle to edit.
NewEditor ==
    [gridSize |-> [rows |-> 4, cols |-> 4],
     exit |-> <<>>,
     playerCar |-> <<>>,
     vehicles |-> <<>>,
     obstacles |-> <<>>,
     validation |-> Absent,
     playerOrientation |-> "horizontal",
     exitSide |-> "right",
     selectedEntity |-> <<>>,
     testMode |-> FALSE]

\* The exit sides the options bar offers for the tool's orientation.
exitOptions(ori) ==
    IF ori = "horizontal" THEN {"left", "right"} ELSE {"up", "down"}

\* PuzzleEditor.deduceDirection: as deduceExitDirection, with 'up' in the
\* place of the throw.
deduceDirection(ed, exit) ==
    IF exit.col >= ed.gridSize.cols - 1 THEN "right"
    ELSE IF exit.col <= 0 THEN "left"
    ELSE IF exit.row >= ed.gridSize.rows - 1 THEN "down"
    ELSE "up"

occupiesCells(row, col, length, orientation) ==
    {Position(IF orientation = "vertical" THEN row + i ELSE row,
              IF orientation = "horizontal" THEN col + i ELSE col) :
        i \in 0..(length - 1)}

fitsInGrid(ed, row, col, length, orientation) ==
    \A c \in occupiesCells(row, col, length, orientation) :
        /\ c.row >= 0
        /\ c.row < ed.gridSize.rows
        /\ c.col >= 0
        /\ c.col < ed.gridSize.cols

\* isOccupied; the indices are the code's, counted from 0, -1 skipping none.
isOccupied(ed, row, col, length, orientation, skipVehicleIdx, skipPlayer, skipObstacleIdx) ==
    LET cells == occupiesCells(row, col, length, orientation)
        ofPlayer ==
            IF ed.playerCar # <<>> /\ ~skipPlayer
            THEN occupiesCells(ed.playerCar[1].row, ed.playerCar[1].col,
                               ed.playerCar[1].length, ed.playerCar[1].orientation)
            ELSE {}
        ofVehicles ==
            UNION {occupiesCells(ed.vehicles[i].row, ed.vehicles[i].col,
                                 ed.vehicles[i].length, ed.vehicles[i].orientation) :
                      i \in {j \in 1..Len(ed.vehicles) : j - 1 # skipVehicleIdx}}
        ofObstacles ==
            {Position(ed.obstacles[i].row, ed.obstacles[i].col) :
                i \in {j \in 1..Len(ed.obstacles) : j - 1 # skipObstacleIdx}}
        occupied == ofPlayer \cup ofVehicles \cup ofObstacles
    IN cells \cap occupied # {}

\* autoPlaceExit: the exit goes to the end of the player's row or column
\* that exitSide names, any other side counting as the near end.
autoPlaceExit(ed) ==
    IF ed.playerCar = <<>> THEN ed
    ELSE LET row == ed.playerCar[1].row
             col == ed.playerCar[1].col
         IN IF ed.playerCar[1].orientation = "horizontal"
            THEN IF ed.exitSide = "right"
                 THEN [ed EXCEPT !.exit = <<Position(row, ed.gridSize.cols - 1)>>]
                 ELSE [ed EXCEPT !.exit = <<Position(row, 0)>>]
            ELSE IF ed.exitSide = "down"
                 THEN [ed EXCEPT !.exit = <<Position(ed.gridSize.rows - 1, col)>>]
                 ELSE [ed EXCEPT !.exit = <<Position(0, col)>>]

\* placePlayer: a car of length 2 in the tool's orientation.
placePlayer(ed, row, col) ==
    LET ori == ed.playerOrientation
    IN IF ~fitsInGrid(ed, row, col, 2, ori) THEN ed
       ELSE IF isOccupied(ed, row, col, 2, ori, 0 - 1, TRUE, 0 - 1) THEN ed
       ELSE [autoPlaceExit([ed EXCEPT !.playerCar =
                               <<[row |-> row, col |-> col, length |-> 2,
                                  orientation |-> ori]>>])
                EXCEPT !.validation = Absent]

\* isValidEntityPosition for the player.
isValidEntityPosition(ed, row, col) ==
    /\ ed.playerCar # <<>>
    /\ fitsInGrid(ed, row, col, ed.playerCar[1].length, ed.playerCar[1].orientation)
    /\ ~isOccupied(ed, row, col, ed.playerCar[1].length, ed.playerCar[1].orientation,
                   0 - 1, TRUE, 0 - 1)

\* selectEntity('player', 0): a second click deselects.
selectEntity(ed) ==
    LET player == [type |-> "player", index |-> 0]
    IN IF ed.selectedEntity = <<player>>
       THEN [ed EXCEPT !.selectedEntity = <<>>]
       ELSE LET sel == [ed EXCEPT !.selectedEntity = <<player>>]
            IN IF sel.playerCar = <<>> THEN sel
               ELSE LET ori == [sel EXCEPT !.playerOrientation =
                                              sel.playerCar[1].orientation]
                    IN IF ori.exit = <<>> THEN ori
                       ELSE [ori EXCEPT !.exitSide = deduceDirection(ori, ori.exit[1])]

\* deleteEntity('player', 0).
deleteEntity(ed) ==
    [ed EXCEPT !.playerCar = <<>>, !.exit = <<>>, !.validation = Absent]

\* clearOutOfBounds, after a side of the grid was changed.
clearOutOfBounds(ed) ==
    LET rows == ed.gridSize.rows
        cols == ed.gridSize.cols
        fits(v) == fitsInGrid(ed, v.row, v.col, v.length, v.orientation)
        inside(o) == o.row < rows /\ o.col < cols
    IN [ed EXCEPT
           !.playerCar = IF ed.playerCar # <<>> /\ ~fits(ed.playerCar[1])
                         THEN <<>> ELSE ed.playerCar,
           !.vehicles = SelectSeq(ed.vehicles, fits),
           !.obstacles = SelectSeq(ed.obstacles, inside),
           !.exit = IF ed.exit # <<>> /\ (ed.exit[1].row >= rows \/ ed.exit[1].col >= cols)
                    THEN <<>> ELSE ed.exit,
           !.validation = Absent]

canTest(ed) == ed.playerCar # <<>> /\ ed.exit # <<>>

\* buildPuzzle, called where the player and the exit are set.
buildPuzzle(ed) ==
    [gridSize |-> ed.gridSize,
     exit |-> ed.exit[1],
     playerCar |-> ed.playerCar[1],
     vehicles |-> ed.vehicles,
     obstacles |-> ed.obstacles,
     validation |-> ed.validation]

\* rotatePuzzle, past its guard.
rotatePuzzle(ed) ==
    LET rotated == rotatePuzzle90CW(buildPuzzle(ed))
        turned == [ed EXCEPT !.gridSize = rotated.gridSize,
                             !.exit = <<rotated.exit>>,
                             !.playerCar = <<rotated.playerCar>>,
                             !.vehicles = rotated.vehicles,
                             !.obstacles = rotated.obstacles,
                             !.validation = rotated.validation,
                             !.playerOrientation = rotated.playerCar.orientation,
                             !.selectedEntity = <<>>]
    IN [turned EXCEPT !.exitSide = deduceDirection(turned, turned.exit[1])]

\* The engine variables while testEngine is null.
NoEngine == Engine(NoPuzzle, <<>>, 0, FALSE, <<>>)

\* SpecEd: the editor opened on a new puzzle.
InitEd ==
    /\ editor = NewEditor
    /\ puzzle = NoPuzzle
    /\ vehiclePositions = <<>>
    /\ moveCount = 0
    /\ isComplete = FALSE
    /\ moveHistory = <<>>
    /\ listeners = <<>>
    /\ op = "new PuzzleEditor"
    /\ ret = FALSE
    /\ range = NoRange
    /\ noop = FALSE
    /\ applied = 0
    /\ prevCount = 0
    /\ notified = <<>>
    /\ seen = <<>>
    /\ idKind = "none"
    /\ gone = {}
    /\ template = RawPuzzle(NewEditor.gridSize, <<0, 0>>,
                            [row |-> 0, col |-> 0, length |-> 1,
                             orientation |-> "horizontal"], <<>>, <<>>)
    /\ result = NoResult
    /\ drag = NoDrag
    /\ onWinTimers = 0
    /\ disturbed = FALSE

\* A handler of the editing screen has run: the editor's fields are ed, and
\* ret tells whether the handler went through autoPlaceExit with a player.
Edited(name, placed, ed) ==
    /\ ~editor.testMode
    /\ editor' = ed
    /\ op' = name
    /\ ret' = placed
    /\ prevCount' = moveCount
    /\ range' = NoRange
    /\ noop' = FALSE
    /\ notified' = <<>>
    /\ seen' = <<>>
    /\ UNCHANGED <<engine, listeners, applied, monitors, authoring, drag, onWinTimers,
                   disturbed>>

\* onCellClick with the player tool: a click deselects, or places the player.
OnCellClick(row, col) ==
    IF editor.selectedEntity # <<>>
    THEN Edited("onCellClick", FALSE, [editor EXCEPT !.selectedEntity = <<>>])
    ELSE Edited("onCellClick",
                /\ fitsInGrid(editor, row, col, 2, editor.playerOrientation)
                /\ ~isOccupied(editor, row, col, 2, editor.playerOrientation,
                               0 - 1, TRUE, 0 - 1),
                placePlayer(editor, row, col))

\* onEditorPointerUp on the player car, the pointer not having moved.
ClickPlayer ==
    /\ editor.playerCar # <<>>
    /\ Edited("selectEntity", FALSE, selectEntity(editor))

\* onEditorPointerUp, the player car dropped outside the grid.
DropOutside ==
    /\ editor.playerCar # <<>>
    /\ Edited("deleteEntity", FALSE, deleteEntity(editor))

\* onEditorPointerUp, the player car dropped with its anchor on (newRow, newCol).
DropPlayer(newRow, newCol) ==
    /\ editor.playerCar # <<>>
    /\ IF isValidEntityPosition(editor, newRow, newCol)
       THEN Edited("onEditorPointerUp", TRUE,
                   [autoPlaceExit([editor EXCEPT !.playerCar[1].row = newRow,
                                                 !.playerCar[1].col = newCol])
                       EXCEPT !.validation = Absent])
       ELSE Edited("onEditorPointerUp", FALSE, editor)

\* A click on an orientation button of the options bar.
ClickOrientation(newOri) ==
    IF newOri = editor.playerOrientation
    THEN Edited("data-pori", FALSE, editor)
    ELSE LET ed == [editor EXCEPT !.playerOrientation = newOri,
                                  !.exitSide = IF newOri = "horizontal" THEN "right"
                                               ELSE "down"]
             turns ==
                 /\ ed.selectedEntity # <<>>
                 /\ ed.selectedEntity[1].type = "player"
                 /\ ed.playerCar # <<>>
                 /\ fitsInGrid(ed, ed.playerCar[1].row, ed.playerCar[1].col,
                               ed.playerCar[1].length, newOri)
                 /\ ~isOccupied(ed, ed.playerCar[1].row, ed.playerCar[1].col,
                                ed.playerCar[1].length, newOri, 0 - 1, TRUE, 0 - 1)
         IN IF turns
            THEN Edited("data-pori", TRUE,
                        [autoPlaceExit([ed EXCEPT !.playerCar[1].orientation = newOri])
                            EXCEPT !.validation = Absent])
            ELSE Edited("data-pori", FALSE, ed)

\* A click on one of the exit-side buttons offered.
ClickExitSide(side) ==
    /\ side \in exitOptions(editor.playerOrientation)
    /\ LET ed == [editor EXCEPT !.exitSide = side]
       IN IF ed.playerCar # <<>>
          THEN Edited("data-exitside", TRUE,
                      [autoPlaceExit(ed) EXCEPT !.validation = Absent])
          ELSE Edited("data-exitside", FALSE, ed)

\* The rows select changed to another value.
ChangeRows(n) ==
    /\ n # editor.gridSize.rows
    /\ Edited("rows", FALSE, clearOutOfBounds([editor EXCEPT !.gridSize.rows = n]))

\* The cols select changed to another value.
ChangeCols(n) ==
    /\ n # editor.gridSize.cols
    /\ Edited("cols", FALSE, clearOutOfBounds([editor EXCEPT !.gridSize.cols = n]))

\* A click on the rotate button.
ClickRotate ==
    IF ~canTest(editor)
    THEN Edited("rotatePuzzle", FALSE, editor)
    ELSE Edited("rotatePuzzle", FALSE, rotatePuzzle(editor))

\* A click on the Test button, enabled by canTest: startTest hydrates the
\* puzzle built and starts an engine on it; ret tells that hydratePuzzle
\* returned, the throw leaving the editing screen as it was.
ClickTest ==
    /\ ~editor.testMode
    /\ canTest(editor)
    /\ IF Throws(buildPuzzle(editor))
       THEN /\ ret' = FALSE
            /\ UNCHANGED <<engine, editor>>
       ELSE /\ ret' = TRUE
            /\ Install(newEngine(hydratePuzzle(buildPuzzle(editor))))
            /\ editor' = [editor EXCEPT !.testMode = TRUE]
    /\ op' = "test-btn"
    /\ prevCount' = moveCount
    /\ range' = NoRange
    /\ noop' = FALSE
    /\ notified' = <<>>
    /\ seen' = <<>>
    /\ UNCHANGED <<listeners, applied, monitors, authoring, drag, onWinTimers, disturbed>>

\* A click on Stop Test.
ClickStopTest ==
    /\ editor.testMode
    /\ editor' = [editor EXCEPT !.testMode = FALSE]
    /\ Install(NoEngine)
    /\ op' = "stop-test-btn"
    /\ ret' = FALSE
    /\ prevCount' = moveCount
    /\ range' = NoRange
    /\ noop' = FALSE
    /\ notified' = <<>>
    /\ seen' = <<>>
    /\ UNCHANGED <<listeners, applied, monitors, authoring, drag, onWinTimers, disturbed>>

NextEd ==
    \/ \E row \in 0..(editor.gridSize.rows - 1), col \in 0..(editor.gridSize.cols - 1) :
          OnCellClick(row, col)
    \/ ClickPlayer
    \/ DropOutside
    \/ \E newRow \in (0 - 1)..MaxEditorSide, newCol \in (0 - 1)..MaxEditorSide :
          DropPlayer(newRow, newCol)
    \/ \E newOri \in Orientations : ClickOrientation(newOri)
    \/ \E side \in {"left", "right", "up", "down"} : ClickExitSide(side)
    \/ \E n \in EditorSides : ChangeRows(n)
    \/ \E n \in EditorSides : ChangeCols(n)
    \/ ClickRotate
    \/ ClickTest
    \/ ClickStopTest

SpecEd == InitEd /\ [][NextEd]_vars

\* What an id names in the puzzle: a vehicle, an obstacle, or nothing.
KindOf(id) ==
    IF getVehicle(puzzle, id) # Undefined THEN "vehicle"
    ELSE IF \E i \in 1..Len(puzzle.obstacles) : puzzle.obstacles[i].id = id THEN "obstacle"
    ELSE "unknown"

\* SpecIds: the player alone with up to MaxObstacles obstacles; idKind
\* records what the id of each canMove and moveVehicle call named.
InitIds ==
    \E gs \in GridSizes :
    \E pc \in Placements(gs) :
    \E os \in SeqsUpTo([row : 0..(gs.rows - 1), col : 0..(gs.cols - 1)], MaxObstacles) :
    \E x \in ExitCells(gs) :
        Construct(RawPuzzle(gs, x, pc, <<>>, os))

NextIds ==
    \/ \E c \in Calls : MoveVehicle(c[1], c[2]) /\ idKind' = KindOf(c[1]) /\ UNCHANGED <<gone, authoring, ui>>
    \/ Reset /\ idKind' = "none" /\ UNCHANGED <<gone, authoring, ui>>
    \/ \E c \in Calls : CanMove(c[1], c[2]) /\ idKind' = KindOf(c[1]) /\ UNCHANGED <<gone, authoring, ui>>
    \/ \E id \in VehicleIds : GetSlideRange(id) /\ idKind' = "none" /\ UNCHANGED <<gone, authoring, ui>>
    \/ \E fn \in Listeners : Subscribe(fn) /\ idKind' = "none" /\ UNCHANGED <<gone, authoring, ui>>
    \/ \E fn \in Listeners : Unsubscribe(fn) /\ idKind' = "none" /\ UNCHANGED <<gone, authoring, ui>>

SpecIds == InitIds /\ [][NextIds]_vars

(***************************************************************************)
(* Vocabulary of the properties: cells as <<row, col>> pairs, computed     *)
(* from the template's shapes and the current anchors.                     *)
(***************************************************************************)
\* The cells vehicle id occupies when anchored at pos.
CellsAt(id, pos) ==
    LET v == getVehicle(puzzle, id) IN Cells(pos.row, pos.col, v.length, v.orientation)

VehicleCells(id) == CellsAt(id, vehiclePositions[id])

ObstacleCellSet == {<<o.row, o.col>> : o \in ObstacleCells}

\* The cells held by everything but vehicle id.
CellsOfOthers(id) ==
    ObstacleCellSet \cup UNION {VehicleCells(other) : other \in VehicleIds \ {id}}

GridCells == AllCells(puzzle.gridSize)

IsHorizontal(id) == getVehicle(puzzle, id).orientation = "horizontal"

\* The anchor coordinate of pos along the axis of vehicle id.
Axis(id, pos) == IF IsHorizontal(id) THEN pos.col ELSE pos.row

\* The coordinate perpendicular to the axis of vehicle id.
Perp(id, pos) == IF IsHorizontal(id) THEN pos.row ELSE pos.col

Between(a, b) == IF a <= b THEN a..b ELSE b..a

\* The cells vehicle id passes over or comes to rest on when its anchor
\* goes from p to q along its axis.
Swept(id, p, q) ==
    UNION {CellsAt(id, IF IsHorizontal(id) THEN Position(p.row, k) ELSE Position(k, p.col)) :
              k \in Between(Axis(id, p), Axis(id, q))}

Moved == {id \in VehicleIds : vehiclePositions'[id] # vehiclePositions[id]}

(***************************************************************************)
(* C1.  No two entities' cells intersect: neither two vehicles nor a       *)
(* vehicle and an obstacle, in every state reachable by moveVehicle and    *)
(* reset from a well-formed template.                                      *)
(***************************************************************************)
C1_NoOverlap ==
    \A id \in VehicleIds : VehicleCells(id) \cap CellsOfOthers(id) = {}

\* Two vehicles and an obstacle, both vehicles moved, a further move refused.
C1_Witness ==
    /\ Len(puzzle.vehicles) = 1 /\ Len(puzzle.obstacles) = 1
    /\ \A id \in VehicleIds : vehiclePositions[id] # initState(puzzle).vehiclePositions[id]
    /\ op = "moveVehicle" /\ ~ret

(***************************************************************************)
(* C2.  Every cell of every vehicle (the anchor and the length-1 cells     *)
(* after it along the orientation) lies in [0, rows) x [0, cols).          *)
(***************************************************************************)
C2_InBounds ==
    \A id \in VehicleIds : VehicleCells(id) \subseteq GridCells

\* A vehicle of length 2 was moved so that its last cell is on the far edge.
C2_Witness ==
    /\ op = "moveVehicle" /\ ret
    /\ \E id \in VehicleIds :
          /\ getVehicle(puzzle, id).length = 2
          /\ vehiclePositions[id] # initState(puzzle).vehiclePositions[id]
          /\ Axis(id, vehiclePositions[id]) + 2 =
                (IF IsHorizontal(id) THEN puzzle.gridSize.cols ELSE puzzle.gridSize.rows)

(***************************************************************************)
(* C3.  A vehicle never passes over another entity: for every move that    *)
(* moveVehicle applies, every cell swept between the old and the new       *)
(* position is free of the other vehicles and of the obstacles.            *)
(***************************************************************************)
C3_NoJump ==
    [][(op' = "moveVehicle" /\ ret') =>
          \A id \in Moved :
              Swept(id, vehiclePositions[id], vehiclePositions'[id]) \cap CellsOfOthers(id) = {}]_vars

(***************************************************************************)
(* C4.  For every vehicle and every target, canMove is true exactly when   *)
(* the perpendicular coordinate is the current one, every cell at the      *)
(* target is inside the grid and none of them is held by another vehicle   *)
(* or an obstacle.                                                         *)
(***************************************************************************)
Legal(id, pos) ==
    /\ Perp(id, pos) = Perp(id, vehiclePositions[id])
    /\ CellsAt(id, pos) \subseteq GridCells
    /\ CellsAt(id, pos) \cap CellsOfOthers(id) = {}

TemplatePos(id) == LET v == getVehicle(puzzle, id) IN Position(v.row, v.col)

C5_OnAxis ==
    \A id \in VehicleIds : Perp(id, vehiclePositions[id]) = Perp(id, TemplatePos(id))

C5_AxisOnly == []C5_OnAxis /\ [][puzzle' = puzzle]_vars

\* A horizontal and a vertical vehicle have both left their template anchors.
C5_Witness ==
    /\ \E id \in VehicleIds : IsHorizontal(id) /\ vehiclePositions[id] # TemplatePos(id)
    /\ \E id \in VehicleIds : ~IsHorizontal(id) /\ vehiclePositions[id] # TemplatePos(id)

(***************************************************************************)
(* C6.  moveVehicle returns false, changes nothing (positions, counter,    *)
(* history, completion flag) and notifies no observer when canMove fails   *)
(* for the target or the target is the vehicle's current position.         *)
(***************************************************************************)
AllCalls == CallIds \X Targets

Rejects(id, pos) ==
    moveVehicle(this, id, pos) = [engine |-> this, ret |-> FALSE, notify |-> FALSE]

C6_RejectedCalls ==
    \A c \in AllCalls :
        (~canMove(puzzle, vehiclePositions, c[1], c[2]) \/ IsNoop(c[1], c[2]))
            => Rejects(c[1], c[2])

C6_RejectedStep ==
    (op' = "moveVehicle" /\ ~ret') => (engine' = engine /\ notified' = <<>>)

C6_Rejected == []C6_RejectedCalls /\ [][C6_RejectedStep]_vars

\* A move was refused after an applied one, with an observer registered.
C6_Witness ==
    /\ op = "moveVehicle" /\ ~ret /\ ~noop
    /\ moveCount = 1 /\ Len(moveHistory) = 1
    /\ listeners # <<>> /\ notified = <<>>

(***************************************************************************)
(* C7.  When moveVehicle returns true the moved vehicle is at the target,  *)
(* the counter has grown by exactly 1, exactly one entry {vehicleId,       *)
(* target row, target col} is at the end of the history and every other    *)
(* vehicle is where it was.                                                *)
(***************************************************************************)
AppliedEffect(id, pos) ==
    LET r == moveVehicle(this, id, pos)
    IN r.ret =>
          /\ r.engine.vehiclePositions[id] = pos
          /\ \A other \in VehicleIds \ {id} :
                r.engine.vehiclePositions[other] = vehiclePositions[other]
          /\ DOMAIN r.engine.vehiclePositions = VehicleIds
          /\ r.engine.moveCount = moveCount + 1
          /\ r.engine.moveHistory =
                Append(moveHistory, [vehicleId |-> id, row |-> pos.row, col |-> pos.col])

C7_AppliedCalls == \A c \in AllCalls : AppliedEffect(c[1], c[2])

C7_AppliedStep ==
    (op' = "moveVehicle" /\ ret') =>
        /\ Cardinality(Moved) = 1
        /\ moveCount' = moveCount + 1
        /\ Len(moveHistory') = Len(moveHistory) + 1
        /\ SubSeq(moveHistory', 1, Len(moveHistory)) = moveHistory
        /\ LET m == moveHistory'[Len(moveHistory')]
           IN m.vehicleId \in Moved /\
              vehiclePositions'[m.vehicleId] = Position(m.row, m.col)

C7_Applied == []C7_AppliedCalls /\ [][C7_AppliedStep]_vars

\* Two moves applied, one to each of two vehicles.
C7_Witness ==
    /\ op = "moveVehicle" /\ ret
    /\ Len(moveHistory) = 2
    /\ moveHistory[1].vehicleId # moveHistory[2].vehicleId

(***************************************************************************)
(* C8.  The move counter equals the number of moves applied since          *)
(* construction or the last reset, which is the length of the list         *)
(* getMoveHistory returns.                                                 *)
(***************************************************************************)
\* getMoveHistory: a copy of the history.
getMoveHistory(e) == [i \in 1..Len(e.moveHistory) |-> e.moveHistory[i]]

C8_CounterIsHistoryLength ==
    /\ moveCount = applied
    /\ moveCount = Len(getMoveHistory(this))

\* Two moves applied and then one refused: the refused one is not counted.
C8_Witness ==
    /\ op = "moveVehicle" /\ ~ret
    /\ moveCount = 2 /\ applied = 2 /\ Len(moveHistory) = 2

(***************************************************************************)
(* C9.  The move counter only increases: across every public operation     *)
(* (moveVehicle, reset, canMove, getSlideRange) the counter afterwards is  *)
(* never smaller than before.                                              *)
(***************************************************************************)
C9_NeverDecreases == [][moveCount' >= moveCount]_vars

\* As amended: reset is the one operation that lowers the counter, to 0;
\* across every other operation the counter never decreases.
C9_DecreasesOnlyByReset ==
    [][IF op' = "reset" THEN moveCount' = 0 ELSE moveCount' >= moveCount]_vars

\* A reset took the counter from MaxMoves down to 0.
C9_Witness == op = "reset" /\ prevCount = MaxMoves /\ moveCount = 0

(***************************************************************************)
(* C10.  canMove and moveVehicle both return false when the target is the  *)
(* vehicle's current position.                                             *)
(***************************************************************************)
C10_NoopIllegal == (noop /\ op \in {"canMove", "moveVehicle"}) => ~ret

\* As amended: canMove returns true for the current position of a vehicle
\* and moveVehicle alone refuses it.
C10_NoopRefusedByMoveVehicle ==
    /\ \A id \in VehicleIds :
          /\ canMove(puzzle, vehiclePositions, id, vehiclePositions[id])
          /\ ~moveVehicle(this, id, vehiclePositions[id]).ret
    /\ (noop /\ op = "canMove") => ret
    /\ (noop /\ op = "moveVehicle") => ~ret

\* moveVehicle was called with the current position of a moved vehicle.
C10_Witness ==
    /\ op = "moveVehicle" /\ noop /\ ~ret
    /\ moveCount = MaxMoves

(***************************************************************************)
(* C11.  For every identifier that names no vehicle of the puzzle, an      *)
(* obstacle's id and an id that names nothing alike, canMove returns       *)
(* false and moveVehicle returns false, both return (they do not throw),   *)
(* and moveVehicle leaves positions, counter, history and flag as they     *)
(* were and calls no listener.                                             *)
(***************************************************************************)
NonVehicleIds ==
    OtherIds \cup {puzzle.obstacles[i].id : i \in 1..Len(puzzle.obstacles)}

C11_NotAVehicle ==
    /\ \A id \in NonVehicleIds, pos \in Targets :
          /\ ~canMove(puzzle, vehiclePositions, id, pos)
          /\ Rejects(id, pos)
    /\ (idKind \in {"obstacle", "unknown"} /\ op \in {"canMove", "moveVehicle"})
          => (~ret /\ notified = <<>> /\ moveCount = prevCount)

\* moveVehicle has just been called with the id of an obstacle, on a board
\* whose player has already moved.
C11_Witness ==
    /\ op = "moveVehicle" /\ idKind = "obstacle" /\ ~ret
    /\ moveCount > 0
    /\ Len(moveHistory) = moveCount

(***************************************************************************)
(* C12.  For every vehicle, the {min, max} of getSlideRange encloses the   *)
(* vehicle's current anchor coordinate (min <= current <= max), and every  *)
(* anchor coordinate from min to max, on the vehicle's axis, is accepted   *)
(* by canMove.                                                             *)
(***************************************************************************)
\* The position on the axis of vehicle id whose anchor coordinate is k.
AtAxis(id, k) ==
    IF IsHorizontal(id) THEN Position(vehiclePositions[id].row, k)
    ELSE Position(k, vehiclePositions[id].col)

Current(id) == Axis(id, vehiclePositions[id])

\* The last method wrote the engine's fields.  canMove, getSlideRange and
\* moveVehicle read nothing else, and the other methods leave the fields
\* alone, so every value the engine takes is met in such a state: what
\* holds of all calls there holds of all calls in every reachable state.
EngineWritten == op \in {"new", "reset"} \/ (op = "moveVehicle" /\ ret)

RangeSound(id, r) ==
    /\ r.min <= Current(id) /\ Current(id) <= r.max
    /\ \A k \in r.min..r.max : canMove(puzzle, vehiclePositions, id, AtAxis(id, k))

C12_RangeSound ==
    /\ EngineWritten =>
          \A id \in VehicleIds :
              RangeSound(id, getSlideRange(puzzle, vehiclePositions, id))
    /\ op = "getSlideRange" =>
          \E id \in VehicleIds :
              /\ range = getSlideRange(puzzle, vehiclePositions, id)
              /\ RangeSound(id, range)

\* getSlideRange has answered, after a move, with a range of three anchors
\* around a vehicle that stands strictly inside it.
C12_Witness ==
    /\ op = "getSlideRange" /\ moveCount > 0
    /\ \E id \in VehicleIds :
          /\ range = getSlideRange(puzzle, vehiclePositions, id)
          /\ range.min < Current(id) /\ Current(id) < range.max

(***************************************************************************)
(* C13.  The range of getSlideRange is maximal: the anchor one before min  *)
(* and the anchor one after max are each rejected by canMove (blocked, or  *)
(* off the grid).  So the range is exactly the set of anchors reachable    *)
(* from the current one by legal single-cell steps, and a vehicle boxed in *)
(* on both sides gets min = max = current.                                 *)
(***************************************************************************)
\* The anchors k from which every anchor between the current one and k is
\* a legal resting place: what single steps can reach.
StepReachable(id) ==
    LET limit == IF IsHorizontal(id) THEN puzzle.gridSize.cols ELSE puzzle.gridSize.rows
    IN {k \in (0 - 1)..limit :
          \A j \in Between(Current(id), k) : Legal(id, AtAxis(id, j))}

BoxedIn(id) ==
    /\ ~Legal(id, AtAxis(id, Current(id) - 1))
    /\ ~Legal(id, AtAxis(id, Current(id) + 1))

RangeMaximal(id, r) ==
    /\ ~canMove(puzzle, vehiclePositions, id, AtAxis(id, r.min - 1))
    /\ ~canMove(puzzle, vehiclePositions, id, AtAxis(id, r.max + 1))
    /\ r.min..r.max = StepReachable(id)
    /\ BoxedIn(id) => (r.min = Current(id) /\ r.max = Current(id))

C13_RangeMaximal ==
    /\ EngineWritten =>
          \A id \in VehicleIds :
              RangeMaximal(id, getSlideRange(puzzle, vehiclePositions, id))
    /\ op = "getSlideRange" =>
          \E id \in VehicleIds :
              /\ range = getSlideRange(puzzle, vehiclePositions, id)
              /\ RangeMaximal(id, range)

\* getSlideRange has answered, after a move, with a range of more than one
\* anchor that ends at another entity and not at the wall.
C13_Witness ==
    /\ op = "getSlideRange" /\ moveCount > 0
    /\ \E id \in VehicleIds :
          /\ range = getSlideRange(puzzle, vehiclePositions, id)
          /\ range.min < range.max
          /\ CellsAt(id, AtAxis(id, range.max + 1)) \subseteq GridCells

(***************************************************************************)
(* C14.  The win predicate is true exactly when the player's leading cell  *)
(* in the exit's direction is the exit cell: the rightmost cell of a       *)
(* horizontal player for a right exit, its leftmost for a left exit, the   *)
(* lowest cell of a vertical player for a down exit, its topmost for an    *)
(* up exit; and an applied move on which it is true leaves the engine      *)
(* complete.                                                               *)
(***************************************************************************)
Player == puzzle.playerCar.id

ExitCell == <<puzzle.exit.row, puzzle.exit.col>>

\* The player lies along the direction of the exit.
Matches ==
    \/ IsHorizontal(Player) /\ puzzle.exit.direction \in {"right", "left"}
    \/ ~IsHorizontal(Player) /\ puzzle.exit.direction \in {"down", "up"}

\* The cell of the player that is foremost in direction dir.
LeadingCell(dir) ==
    LET cells == VehicleCells(Player)
    IN CHOOSE c \in cells : \A d \in cells :
          CASE dir = "right" -> d[2] <= c[2]
            [] dir = "left"  -> c[2] <= d[2]
            [] dir = "down"  -> d[1] <= c[1]
            [] dir = "up"    -> c[1] <= d[1]

WinPredicate == Matches /\ LeadingCell(puzzle.exit.direction) = ExitCell

C14_WinIffLeadingCellOnExit ==
    /\ checkWin(puzzle, vehiclePositions) <=> WinPredicate
    /\ (op = "moveVehicle" /\ ret /\ WinPredicate) => isComplete

\* A vertical player of length two or more has just been moved onto a down
\* exit: its anchor is not on the exit cell, its lowest cell is.
C14_Witness ==
    /\ op = "moveVehicle" /\ ret /\ isComplete
    /\ puzzle.exit.direction = "down" /\ ~IsHorizontal(Player)
    /\ puzzle.playerCar.length >= 2
    /\ WinPredicate

(***************************************************************************)
(* C15.  When the player does not lie along the exit's direction (a        *)
(* horizontal player with an up or down exit, a vertical player with a     *)
(* left or right exit) the win predicate is false and isComplete is false  *)
(* in every reachable state.                                               *)
(***************************************************************************)
C15_MismatchNeverComplete ==
    ~Matches => (~isComplete /\ ~checkWin(puzzle, vehiclePositions))

\* A horizontal player has just been moved onto the cell of a down exit,
\* and the engine is not complete.
C15_Witness ==
    /\ op = "moveVehicle" /\ ret
    /\ IsHorizontal(Player) /\ puzzle.exit.direction = "down"
    /\ ExitCell \in VehicleCells(Player)
    /\ ~isComplete

(***************************************************************************)
(* C16.  After every applied move, isComplete equals the value of the win  *)
(* predicate on the positions that move produced: the engine is complete   *)
(* exactly when the predicate was true at its last evaluation.             *)
(***************************************************************************)
C16_FlagIsLastEvaluation ==
    (op = "moveVehicle" /\ ret) => (isComplete <=> WinPredicate)

(***************************************************************************)
(* C17.  isComplete plays no part in moveVehicle: for every vehicle and    *)
(* target the call returns the same value, writes the same positions,      *)
(* counter and history and notifies alike, whether the flag is true or     *)
(* false; in a completed state an accepted move still adds one to the      *)
(* counter and one entry to the history.                                   *)
(***************************************************************************)
\* The engine with the same positions, counter and history and the
\* completion flag set to ic.
WithFlag(ic) == [this EXCEPT !.isComplete = ic]

C17_CompleteStillMoves ==
    EngineWritten =>
    \A c \in Calls :
        LET done == moveVehicle(WithFlag(TRUE), c[1], c[2])
            open == moveVehicle(WithFlag(FALSE), c[1], c[2])
        IN /\ done.ret = open.ret
           /\ done.notify = open.notify
           /\ done.engine.vehiclePositions = open.engine.vehiclePositions
           /\ done.engine.moveCount = open.engine.moveCount
           /\ done.engine.moveHistory = open.engine.moveHistory
           /\ done.ret <=> (canMove(puzzle, vehiclePositions, c[1], c[2])
                            /\ ~IsNoop(c[1], c[2]))
           /\ done.ret => /\ done.engine.moveCount = moveCount + 1
                          /\ Len(done.engine.moveHistory) = Len(moveHistory) + 1

\* The player's first move won, and a second move, of another vehicle, was
\* accepted after that.
C17_Witness ==
    /\ op = "moveVehicle" /\ ret /\ isComplete
    /\ moveCount = 2 /\ Len(moveHistory) = 2
    /\ moveHistory[1].vehicleId = Player
    /\ moveHistory[2].vehicleId # Player
    /\ WinPredicate

(***************************************************************************)
(* C18.  After reset every vehicle is at its template position, the move   *)
(* history is empty, the counter is 0, isComplete is false, the template   *)
(* is the one the engine had, the registered observers are still           *)
(* registered and each of them has been notified exactly once, with the    *)
(* state as reset left it.                                                 *)
(***************************************************************************)
\* How many times listener fn ran in the last method.
Calls_Of(fn) == Cardinality({i \in 1..Len(notified) : notified[i] = fn})

Registered == {listeners[i] : i \in 1..Len(listeners)}

C18_AfterReset ==
    op = "reset" =>
        /\ \A id \in VehicleIds : vehiclePositions[id] = TemplatePos(id)
        /\ getMoveHistory(this) = <<>>
        /\ moveCount = 0
        /\ ~isComplete
        /\ \A fn \in Registered : Calls_Of(fn) = 1
        /\ \A i \in 1..Len(notified) : notified[i] \in Registered
        /\ seen = <<this>>

C18_ResetStep ==
    op' = "reset" =>
        /\ puzzle' = puzzle
        /\ listeners' = listeners
        /\ DOMAIN vehiclePositions' = DOMAIN vehiclePositions

C18_Reset == []C18_AfterReset /\ [][C18_ResetStep]_vars

\* reset has just run on an engine that had made MaxMoves moves, with a
\* listener registered.
C18_Witness ==
    /\ op = "reset" /\ prevCount = MaxMoves
    /\ listeners # <<>> /\ notified = listeners
    /\ moveCount = 0 /\ moveHistory = <<>>

(***************************************************************************)
(* C19.  An applied move runs every registered observer exactly once and   *)
(* no one else, and what the observers find is the engine as the move      *)
(* left it: the new position, the counter, the history and the completion  *)
(* flag already written (notification is the last thing moveVehicle does   *)
(* before it returns).  A rejected move runs no observer.                  *)
(***************************************************************************)
C19_AppliedNotifiesAll ==
    /\ (op = "moveVehicle" /\ ret) =>
          /\ \A fn \in Registered : Calls_Of(fn) = 1
          /\ \A i \in 1..Len(notified) : notified[i] \in Registered
          /\ seen = <<this>>
    /\ (op = "moveVehicle" /\ ~ret) => (notified = <<>> /\ seen = <<>>)

\* Two observers are registered and both have just been run by a move that
\* completed the puzzle: they found the flag set and the move counted.
C19_Witness ==
    /\ op = "moveVehicle" /\ ret
    /\ Len(listeners) = 2 /\ notified = listeners
    /\ Len(seen) = 1
    /\ seen[1].isComplete /\ seen[1].moveCount = prevCount + 1
    /\ Len(seen[1].moveHistory) = seen[1].moveCount

(***************************************************************************)
(* C20.  An observer whose unsubscribe function has been called (and that  *)
(* has not been subscribed again since) is no longer registered and is run *)
(* by no applied move and no reset, while every observer still registered  *)
(* is run once by each of them; unsubscribing removes that observer alone. *)
(***************************************************************************)
C20_GoneUnnotified ==
    /\ \A fn \in gone : fn \notin Registered /\ Calls_Of(fn) = 0
    /\ (op = "reset" \/ (op = "moveVehicle" /\ ret)) =>
          \A fn \in Registered : Calls_Of(fn) = 1

C20_UnsubscribeStep ==
    op' = "unsubscribe" =>
        \E fn \in Registered :
            listeners' = SelectSeq(listeners, LAMBDA x : x # fn)

C20_Unsubscribed == []C20_GoneUnnotified /\ [][C20_UnsubscribeStep]_vars

\* L1 has unsubscribed, L2 has not, and a move has just been applied: L2
\* was run, L1 was not.
C20_Witness ==
    /\ op = "moveVehicle" /\ ret
    /\ gone = {"L1"}
    /\ notified = <<"L2">>

(***************************************************************************)
(* Vocabulary of the validation claims: the trace of the puzzle read move  *)
(* by move, each move tried on the board the moves before it left.         *)
(***************************************************************************)
Trace == puzzle.validation.moves

HasTrace == puzzle.validation.present /\ Len(Trace) > 0

\* The engine after the first k moves of the trace have been tried in
\* order, a refused move leaving the board as it was.
RECURSIVE Attempted(_)
Attempted(k) ==
    IF k = 0 THEN newEngine(puzzle)
    ELSE moveVehicle(Attempted(k - 1), Trace[k].vehicleId,
                     Position(Trace[k].row, Trace[k].col)).engine

\* The steps of the trace that are refused when their turn comes.
Refused ==
    {i \in 1..Len(Trace) :
        ~moveVehicle(Attempted(i - 1), Trace[i].vehicleId,
                     Position(Trace[i].row, Trace[i].col)).ret}

FirstRefused == CHOOSE i \in Refused : \A j \in Refused : i <= j

\* What validatePuzzle's own engine went through.
Replay == replayFrom(newEngine(puzzle), Trace, 1)

(***************************************************************************)
(* C21.  When step i is the first step of the trace that moveVehicle       *)
(* refuses, validatePuzzle returns isValid false with the error naming     *)
(* step i and no par; its engine has applied the i - 1 steps before and    *)
(* none after; a later step that is refused too is not the one named.      *)
(***************************************************************************)
C21_FirstFailureReported ==
    (op = "validatePuzzle" /\ HasTrace /\ Refused # {}) =>
        /\ result = ValidationResult(FALSE, <<>>, <<InvalidMove(FirstRefused)>>)
        /\ Replay.failed = FirstRefused
        /\ Replay.engine.moveCount = FirstRefused - 1
        /\ Replay.engine.moveHistory = SubSeq(Trace, 1, FirstRefused - 1)
        /\ \A j \in Refused \ {FirstRefused} : result.error # <<InvalidMove(j)>>

\* A trace of two steps, the first applied and the second refused, has
\* been validated on a board with a second vehicle.
C21_Witness ==
    /\ op = "validatePuzzle" /\ Len(Trace) = 2
    /\ Refused = {2}
    /\ result.error = <<InvalidMove(2)>>
    /\ Len(puzzle.vehicles) = 1

(***************************************************************************)
(* C22.  validatePuzzle returns isValid true exactly when the trace is     *)
(* given and not empty, every step is applied in order and the completion  *)
(* flag is set when the last one is; then par is the number of steps and   *)
(* there is no error; when it returns isValid false there is an error and  *)
(* no par.                                                                 *)
(***************************************************************************)
C22_ValidIffReplayWins ==
    op = "validatePuzzle" =>
        /\ result.isValid <=>
              (HasTrace /\ Refused = {} /\ Attempted(Len(Trace)).isComplete)
        /\ result.isValid => (result.par = <<Len(Trace)>> /\ result.error = <<>>)
        /\ ~result.isValid => (result.par = <<>> /\ Len(result.error) = 1)

\* A solution of two steps, a vehicle moved out of the player's way and
\* the player moved onto the exit, has been found valid with par 2.
C22_Witness ==
    /\ op = "validatePuzzle" /\ result.isValid /\ result.par = <<2>>
    /\ Trace[1].vehicleId = "vehicle-0" /\ Trace[2].vehicleId = "player"
    /\ ~Attempted(1).isComplete

(***************************************************************************)
(* C23.  validatePuzzle returns isValid false, with its reason and no par, *)
(* when the trace is left out or empty (nothing is replayed) and when      *)
(* every step of the trace is applied and the completion flag is not set   *)
(* at the end.                                                             *)
(***************************************************************************)
C23_NoTraceOrNoWin ==
    op = "validatePuzzle" =>
        /\ ~HasTrace => result = ValidationResult(FALSE, <<>>, <<NoTrace>>)
        /\ (HasTrace /\ Refused = {} /\ ~Attempted(Len(Trace)).isComplete)
              => result = ValidationResult(FALSE, <<>>, <<NoWin>>)

\* A puzzle whose validation is the empty array has been validated.
C23_Witness ==
    /\ op = "validatePuzzle"
    /\ puzzle.validation.present /\ Len(Trace) = 0
    /\ ~result.isValid /\ result.error = <<NoTrace>>

(***************************************************************************)
(* C24.  validatePuzzle is deterministic and isolated: a call returns what *)
(* an earlier call on the same puzzle returned, whatever was played in     *)
(* between; the puzzle is the same after the call, also as the replay's    *)
(* engine holds it; and the engine of the game (positions, counter,        *)
(* history, completion flag, listeners) is as it was and none of its       *)
(* listeners is run.                                                       *)
(***************************************************************************)
C24_ReplayKeepsPuzzle == Replay.engine.puzzle = puzzle

C24_ValidateStep ==
    op' = "validatePuzzle" =>
        /\ result # NoResult => result' = result
        /\ engine' = engine
        /\ moveHistory' = moveHistory
        /\ listeners' = listeners
        /\ notified' = <<>>
        /\ template' = template

C24_Isolated == []C24_ReplayKeepsPuzzle /\ [][C24_ValidateStep]_vars

\* A valid puzzle has been validated while its game, with a listener
\* registered, stands one move in and is not won.
C24_Witness ==
    /\ op = "validatePuzzle" /\ result.isValid
    /\ moveCount = 1 /\ ~isComplete
    /\ listeners # <<>> /\ notified = <<>>

(***************************************************************************)
(* Vocabulary of the rotation claims.                                      *)
(***************************************************************************)
\* The template turned a quarter clockwise, and turned four times.
Rotated == rotatePuzzle90CW(template)

FourTimes == rotatePuzzle90CW(rotatePuzzle90CW(rotatePuzzle90CW(Rotated)))

\* The image of a set of cells under (r, c) -> (c, R-1-r), R the rows of
\* the template.
Image(cells) == {<<x[2], template.gridSize.rows - 1 - x[1]>> : x \in cells}

\* Every entity of a raw puzzle lies in its grid.
InBounds(raw) ==
    /\ PlacementCells(raw.playerCar) \subseteq AllCells(raw.gridSize)
    /\ \A i \in 1..Len(raw.vehicles) :
          PlacementCells(raw.vehicles[i]) \subseteq AllCells(raw.gridSize)
    /\ \A i \in 1..Len(raw.obstacles) :
          <<raw.obstacles[i].row, raw.obstacles[i].col>> \in AllCells(raw.gridSize)

Flipped(o) == IF o = "horizontal" THEN "vertical" ELSE "horizontal"

\* The rotated vehicle w covers the image of v's cells, turned, same length.
TurnedOnto(v, w) ==
    /\ w.orientation = Flipped(v.orientation)
    /\ w.length = v.length
    /\ PlacementCells(w) = Image(PlacementCells(v))

(***************************************************************************)
(* C25.  Four applications of rotatePuzzle90CW give back the template:     *)
(* grid size, exit cell (so the deduced direction too), every vehicle's    *)
(* anchor, orientation and length, every obstacle, every waypoint of the   *)
(* validation trace.                                                       *)
(***************************************************************************)
C25_FourRotationsIdentity ==
    /\ FourTimes = template
    /\ hydratePuzzle(FourTimes).exit = puzzle.exit

\* A rotation has produced an oblong template with a player of length 2,
\* another vehicle, and a trace of two waypoints, one of them the vehicle's.
C25_Witness ==
    /\ op = "rotatePuzzle90CW"
    /\ template.gridSize.rows # template.gridSize.cols
    /\ template.playerCar.length = 2
    /\ Len(template.vehicles) = 1
    /\ Len(template.validation.moves) = 2
    /\ template.validation.moves[2].vehicleId = "vehicle-0"

(***************************************************************************)
(* C26.  rotatePuzzle90CW swaps the grid's dimensions; every vehicle is    *)
(* turned, keeps its length, and covers exactly the image of its cells     *)
(* under (r, c) -> (c, R-1-r); the obstacles and the exit map by the same  *)
(* rule; a template in bounds and free of overlaps stays so.               *)
(***************************************************************************)
C26_CellsAreImages ==
    /\ Rotated.gridSize = [rows |-> template.gridSize.cols, cols |-> template.gridSize.rows]
    /\ TurnedOnto(template.playerCar, Rotated.playerCar)
    /\ Len(Rotated.vehicles) = Len(template.vehicles)
    /\ \A i \in 1..Len(template.vehicles) :
          TurnedOnto(template.vehicles[i], Rotated.vehicles[i])
    /\ Len(Rotated.obstacles) = Len(template.obstacles)
    /\ \A i \in 1..Len(template.obstacles) :
          {<<Rotated.obstacles[i].row, Rotated.obstacles[i].col>>}
              = Image({<<template.obstacles[i].row, template.obstacles[i].col>>})
    /\ {<<Rotated.exit.row, Rotated.exit.col>>}
          = Image({<<template.exit.row, template.exit.col>>})
    /\ (InBounds(template) /\ WellFormed(template))
          => (InBounds(Rotated) /\ WellFormed(Rotated))

\* A rotation has laid a vertical player of length 2 down in an oblong
\* grid that holds an obstacle.
C26_Witness ==
    /\ op = "rotatePuzzle90CW"
    /\ template.gridSize.rows # template.gridSize.cols
    /\ template.playerCar.length = 2
    /\ template.playerCar.orientation = "horizontal"
    /\ Len(template.obstacles) = 1
    /\ InBounds(template) /\ WellFormed(template)

(***************************************************************************)
(* C27.  The rotated trace replays the same solution on the rotated        *)
(* puzzle: step i of the rotated trace is applied on the rotated puzzle    *)
(* exactly when step i of the trace is applied on the puzzle, and after    *)
(* each step every vehicle's cells in the rotated game are the image of    *)
(* its cells in the original game.  (Stated for every step of the trace,   *)
(* the steps after a refused one included.)                                *)
(***************************************************************************)
EngineCells(e, id) ==
    LET v == getVehicle(e.puzzle, id)
        pos == e.vehiclePositions[id]
    IN Cells(pos.row, pos.col, v.length, v.orientation)

ImageOfGame(a, b) ==
    /\ DOMAIN b.vehiclePositions = DOMAIN a.vehiclePositions
    /\ \A id \in DOMAIN a.vehiclePositions :
          EngineCells(b, id) = Image(EngineCells(a, id))

RECURSIVE SameSolution(_, _, _)
SameSolution(a, b, i) ==
    IF i > Len(template.validation.moves) THEN TRUE
    ELSE LET m == template.validation.moves[i]
             n == Rotated.validation.moves[i]
             x == moveVehicle(a, m.vehicleId, Position(m.row, m.col))
             y == moveVehicle(b, n.vehicleId, Position(n.row, n.col))
         IN /\ n.vehicleId = m.vehicleId
            /\ y.ret = x.ret
            /\ ImageOfGame(x.engine, y.engine)
            /\ SameSolution(x.engine, y.engine, i + 1)

C27_RotatedTraceReplays ==
    /\ Rotated.validation.present = template.validation.present
    /\ Len(Rotated.validation.moves) = Len(template.validation.moves)
    /\ ImageOfGame(newEngine(hydratePuzzle(template)), newEngine(hydratePuzzle(Rotated)))
    /\ SameSolution(newEngine(hydratePuzzle(template)), newEngine(hydratePuzzle(Rotated)), 1)

\* A rotation has produced an oblong template whose player has length 2
\* and whose trace of two waypoints is applied step by step.
C27_Witness ==
    /\ op = "rotatePuzzle90CW"
    /\ template.gridSize.rows # template.gridSize.cols
    /\ template.playerCar.length = 2
    /\ Len(Trace) = 2
    /\ Replay.engine.moveCount = 2

(***************************************************************************)
(* C28.  Rotation yields an equivalent puzzle: when the hydrated template  *)
(* validates as valid with par n, the hydrated rotation of it (exit        *)
(* direction deduced anew) validates as valid with par n, and when it is   *)
(* invalid the rotation is invalid.                                        *)
(***************************************************************************)
C28_RotationKeepsValidity ==
    LET before == validatePuzzle(hydratePuzzle(template))
        after == validatePuzzle(hydratePuzzle(Rotated))
    IN /\ after.isValid = before.isValid
       /\ after.par = before.par

(***************************************************************************)
(* Vocabulary of the hydration claims.                                     *)
(***************************************************************************)
\* hydratePuzzle has just been called on the template (ret: it returned).
Hydrated == op \in {"hydratePuzzle", "startTest"}

\* The exit of the template is a cell of its grid, on one of the edges.
OnPeriphery ==
    /\ template.exit.row \in 0..(template.gridSize.rows - 1)
    /\ template.exit.col \in 0..(template.gridSize.cols - 1)
    /\ \/ template.exit.row \in {0, template.gridSize.rows - 1}
       \/ template.exit.col \in {0, template.gridSize.cols - 1}

(***************************************************************************)
(* C29.  For an exit on the periphery the direction is deduced by the      *)
(* priority right (last column), left (column 0), down (last row), up      *)
(* (row 0): a corner cell, or a cell of a one-column grid, is classified   *)
(* by its column.                                                          *)
(***************************************************************************)
C29_DeductionPriority ==
    (Hydrated /\ OnPeriphery) =>
        /\ ret
        /\ puzzle.exit.row = template.exit.row
        /\ puzzle.exit.col = template.exit.col
        /\ puzzle.exit.direction =
              IF template.exit.col = template.gridSize.cols - 1 THEN "right"
              ELSE IF template.exit.col = 0 THEN "left"
              ELSE IF template.exit.row = template.gridSize.rows - 1 THEN "down"
              ELSE "up"

\* The exit in the bottom left corner of the 3x3 grid has been classified
\* 'left'.
C29_Witness ==
    /\ op = "hydratePuzzle" /\ ret
    /\ template.gridSize = [rows |-> 3, cols |-> 3]
    /\ template.exit = Position(2, 0)
    /\ puzzle.exit.direction = "left"

(***************************************************************************)
(* C30.  Hydration throws, producing no puzzle, for every exit that is not *)
(* a cell on the grid periphery: interior cells and positions outside the  *)
(* grid (negative coordinates, row >= rows, col >= cols); it never throws  *)
(* for a periphery cell.                                                   *)
(***************************************************************************)
C30_ThrowsIffOffPeriphery == Hydrated => (ret <=> OnPeriphery)

(***************************************************************************)
(* C31.  canMove, getSlideRange, getVehicle, getMoveHistory and getState   *)
(* leave the engine as it is (positions, move counter, history, completion *)
(* flag) and run no listener.                                              *)
(***************************************************************************)
Queries == {"canMove", "getSlideRange", "getVehicle", "getMoveHistory", "getState"}

C31_QueryStep ==
    op' \in Queries =>
        /\ vehiclePositions' = vehiclePositions
        /\ moveCount' = moveCount
        /\ moveHistory' = moveHistory
        /\ isComplete' = isComplete
        /\ puzzle' = puzzle
        /\ listeners' = listeners
        /\ notified' = <<>>

C31_QueriesChangeNothing == [][C31_QueryStep]_vars

\* canMove has accepted a target on an engine one move in, with a listener
\* registered, and nobody was told.
C31_Witness ==
    /\ op = "canMove" /\ ret /\ ~noop
    /\ moveCount = 1 /\ Len(moveHistory) = 1
    /\ listeners # <<>> /\ notified = <<>>

(***************************************************************************)
(* C32.  The 4x4 scenario: with the player on (1,0)-(1,1) and the blocker  *)
(* on (0,2)-(1,2), canMove('player', (1,2)) is false; the blocker can be   *)
(* moved to anchor (2,2); once it is there, moveVehicle('player', (1,2))   *)
(* is applied and sets isComplete; validatePuzzle with the trace of those  *)
(* two moves returns isValid true, par 2.                                  *)
(***************************************************************************)
BlockerDown == PuzzleMove("vehicle-0", 2, 2)

PlayerOut == PuzzleMove("player", 1, 2)

C32_Scenario ==
    /\ moveCount = 0 =>
          /\ ~canMove(puzzle, vehiclePositions, "player", Position(1, 2))
          /\ moveVehicle(this, "vehicle-0", Position(2, 2)).ret
    /\ moveHistory = <<BlockerDown>> =>
          /\ canMove(puzzle, vehiclePositions, "player", Position(1, 2))
          /\ moveVehicle(this, "player", Position(1, 2)).ret
          /\ moveVehicle(this, "player", Position(1, 2)).engine.isComplete
    /\ moveHistory = <<BlockerDown, PlayerOut>> => (isComplete /\ moveCount = 2)
    /\ op = "validatePuzzle" => result = ValidationResult(TRUE, <<2>>, <<>>)

\* The two moves have been played, the second one just now.
C32_Witness ==
    /\ op = "moveVehicle" /\ ret
    /\ moveHistory = <<BlockerDown, PlayerOut>>
    /\ isComplete
    /\ validatePuzzle(puzzle) = ValidationResult(TRUE, <<2>>, <<>>)

(***************************************************************************)
(* C33.  The completion flag is a latch: only an applied move sets it;     *)
(* once set it stays set across every later moveVehicle call, those that   *)
(* take the player off the exit included; only reset clears it.            *)
(***************************************************************************)
C33_FlagStep ==
    /\ (~isComplete /\ isComplete') => (op' = "moveVehicle" /\ ret')
    /\ (isComplete /\ op' = "moveVehicle") => isComplete'
    /\ (isComplete /\ ~isComplete') => op' = "reset"

C33_Latch == [][C33_FlagStep]_vars

\* A move has just taken the player off the exit and the flag is still set.
C33_Witness ==
    /\ op = "moveVehicle" /\ ret
    /\ isComplete
    /\ ~WinPredicate
    /\ moveCount = 2

(***************************************************************************)
(* C34.  A trace that validatePuzzle reports valid ends in a winning       *)
(* state: after the last move of the trace has been applied, the player's  *)
(* position satisfies the win predicate.                                   *)
(***************************************************************************)
C34_ValidEndsOnExit ==
    (op = "validatePuzzle" /\ result.isValid) =>
        checkWin(puzzle, Replay.engine.vehiclePositions)

(***************************************************************************)
(* C35.  Replay round trip: after any sequence of moveVehicle calls,       *)
(* replaying getMoveHistory() in order on a fresh engine of the same       *)
(* puzzle applies every move and ends with the same positions, move        *)
(* counter and completion flag; so the history of an engine whose          *)
(* isComplete is true, saved as the puzzle's validation, is reported valid *)
(* with par equal to the move counter.                                     *)
(***************************************************************************)
HistoryReplay == replayFrom(newEngine(puzzle), getMoveHistory(this), 1)

SavedAsValidation == [puzzle EXCEPT !.validation = Given(getMoveHistory(this))]

C35_HistoryReplays ==
    /\ HistoryReplay.failed = 0
    /\ HistoryReplay.engine.vehiclePositions = vehiclePositions
    /\ HistoryReplay.engine.moveCount = moveCount
    /\ HistoryReplay.engine.isComplete = isComplete
    /\ HistoryReplay.engine.moveHistory = moveHistory
    /\ isComplete =>
          validatePuzzle(SavedAsValidation) = ValidationResult(TRUE, <<moveCount>>, <<>>)

\* The other vehicle was moved, then the player, and the puzzle is
\* complete.
C35_Witness ==
    /\ op = "moveVehicle" /\ ret
    /\ isComplete
    /\ Len(moveHistory) = 2
    /\ moveHistory[1].vehicleId = "vehicle-0"
    /\ moveHistory[2].vehicleId = "player"

(***************************************************************************)
(* C36.  Every applied move is reversible: right after moveVehicle(v, q)   *)
(* moved v from p to q, canMove(v, p) is true and moveVehicle(v, p) is     *)
(* applied and puts every vehicle back where it was, while the move        *)
(* counter and the history grow by one more.                               *)
(***************************************************************************)
C36_MoveStep ==
    (op' = "moveVehicle" /\ ret') =>
        LET v == moveHistory'[Len(moveHistory')].vehicleId
            p == vehiclePositions[v]
            back == moveVehicle(this', v, p)
        IN /\ canMove(puzzle', vehiclePositions', v, p)
           /\ back.ret
           /\ back.engine.vehiclePositions = vehiclePositions
           /\ back.engine.moveCount = moveCount' + 1
           /\ Len(back.engine.moveHistory) = Len(moveHistory') + 1

C36_Reversible == [][C36_MoveStep]_vars

\* The player was moved and moved back beside another vehicle: every
\* vehicle is where the puzzle put it, two moves on the counter.
C36_Witness ==
    /\ op = "moveVehicle" /\ ret
    /\ moveCount = 2
    /\ moveHistory[1].vehicleId = "player"
    /\ moveHistory[2].vehicleId = "player"
    /\ Len(puzzle.vehicles) = 1
    /\ vehiclePositions = newEngine(puzzle).vehiclePositions

(***************************************************************************)
(* C37.  The target onPointerUp passes to moveVehicle is the coordinate at *)
(* pointer-down plus the cell delta, clamped to the slide range computed   *)
(* at pointer-down; when the engine was not changed during the drag, the   *)
(* call is a no-op at the current position or is applied: a drag never     *)
(* produces a refused move to another position.                            *)
(***************************************************************************)
C37_DropStep == (op' = "onPointerUp" /\ ~disturbed) => (noop' \/ ret')

C37_DragNeverRefused == [][C37_DropStep]_vars

\* A drop has moved a vehicle to the far end of the range found at
\* pointer-down, on a board with a second vehicle.
C37_Witness ==
    /\ op = "onPointerUp" /\ ret /\ ~disturbed
    /\ Len(puzzle.vehicles) = 1
    /\ drag.dragRange.max # drag.dragRange.min
    /\ LET last == moveHistory[Len(moveHistory)]
       IN (IF drag.dragIsHorizontal THEN last.col ELSE last.row) = drag.dragRange.max

(***************************************************************************)
(* C38.  In one game session the win callback is scheduled exactly once,   *)
(* for the drag whose move completes the puzzle, and not again by later    *)
(* position updates.                                                       *)
(***************************************************************************)
C38_OnWinOnce ==
    /\ onWinTimers <= 1
    /\ isComplete => onWinTimers = 1

(***************************************************************************)
(* Vocabulary of the editor claims.                                        *)
(***************************************************************************)
\* The editor's exit is a cell of its current grid, on one of the edges.
ExitOnEdge ==
    /\ editor.exit[1].row \in 0..(editor.gridSize.rows - 1)
    /\ editor.exit[1].col \in 0..(editor.gridSize.cols - 1)
    /\ \/ editor.exit[1].row \in {0, editor.gridSize.rows - 1}
       \/ editor.exit[1].col \in {0, editor.gridSize.cols - 1}

\* The last handler placed the exit with autoPlaceExit for a player whose
\* orientation is offered the side chosen.
AutoPlaced ==
    /\ op \in {"onCellClick", "onEditorPointerUp", "data-pori", "data-exitside"}
    /\ ret
    /\ editor.exitSide \in exitOptions(editor.playerCar[1].orientation)

(***************************************************************************)
(* C39.  In the editor, whatever was edited, an exit that is set is a cell *)
(* on the periphery of the current grid, and a test that is started never  *)
(* ends in the throw of hydratePuzzle.                                     *)
(***************************************************************************)
C39_ExitStaysOnPeriphery ==
    /\ editor.exit # <<>> => ExitOnEdge
    /\ op = "test-btn" => ret

(***************************************************************************)
(* C40.  The exit that autoPlaceExit chooses, for a player placed by the   *)
(* editor and a side offered for its orientation, hydrates to a direction  *)
(* equal to the side chosen (horizontal with left or right, vertical with  *)
(* up or down, as checkWin requires).                                      *)
(***************************************************************************)
C40_ExitHydratesToSide ==
    AutoPlaced =>
        deduceExitDirection(editor.exit[1], editor.gridSize) = editor.exitSide

====
